---- MODULE Spec2Model ----
(***************************************************************************)
(* Query orchestration core and private-ingestion worker of lattice        *)
(* (src/lattice/app): the Runtime Store, the ingestion worker with its      *)
(* durable snapshot, the retrieval engine with its two caches, and          *)
(* run_orchestration with the planner gate and the critic loop.             *)
(*                                                                          *)
(* Conventions.  Python None is the string "None".  A dict is a function    *)
(* whose DOMAIN is the set of keys; job ids are handed out in creation      *)
(* order, so ascending id order is the dict's insertion order.  Scores are  *)
(* thousandths (SCALE = 1.0).  A text is [len, words] where words is the set *)
(* of <<offset, token>> pairs of its whitespace-separated tokens; every     *)
(* other character is whitespace.                                           *)
(***************************************************************************)
EXTENDS Integers, Sequences, FiniteSets, TLC

VARIABLES
    ingestion_jobs,          \* RuntimeStore.ingestion_jobs: job_id -> IngestionJob
    queued_uploads,          \* RuntimeStore.queued_uploads: job_id -> QueuedUpload
    private_chunks_by_user,  \* RuntimeStore.private_chunks_by_user: user -> Seq(chunk)
    snapshot,                \* payload last written to .tmp/runtime_state.json
    worker_queue,            \* IngestionWorker._queue contents (job ids, sentinel)
    queue_open,              \* IngestionWorker._queue is not None
    task,                    \* IngestionWorker._task: "None", "running", "done", "raised"
    shutdown,                \* IngestionWorker._shutdown is set
    wpc,                     \* where the worker task stands inside process_ingestion_job
    wjob,                    \* job id the worker task is processing (0: none)
    wchunks,                 \* `chunks` local of process_ingestion_job while upserting
    lifecycle,               \* lifespan of the app: "init", "serving", "stopping", "stopped"
    supabase_store,          \* config: a remote vector store is configured
    neo4j_store,             \* config: a remote graph store is configured
    next_job_id,             \* number of the next job (uuid4 in the code)
    restarts,                \* process restarts so far
    stops,                   \* lifespan shutdowns so far
    step_failed,             \* history: job_id -> kind of the last processing failure
    recovered,               \* history: ids start() re-enqueued, not yet taken by _run
    retrieval_cache,         \* RuntimeStore.retrieval_cache: cache_key -> RetrievalBundle
    query_embedding_cache,   \* RuntimeStore.query_embedding_cache: set of semantic keys
    first_bundle,            \* history: cache_key -> bundle the first retrieve returned
    last,                    \* record of the last run_orchestration call
    n_queries,               \* run_orchestration calls so far
    demo_usage_by_session,   \* RuntimeStore.demo_usage_by_session: session -> count
    conversation_turns_by_thread, \* RuntimeStore.conversation_turns_by_thread
    demo_calls,              \* history: session -> consume_demo_query calls so far
    query_trace_log,         \* RuntimeStore.query_trace_log: Seq(QueryTrace)
    superstep                \* the query whose retrieval steps are in flight

ingest_vars == <<ingestion_jobs, queued_uploads, private_chunks_by_user, snapshot,
                 worker_queue, queue_open, task, shutdown, wpc, wjob, wchunks, lifecycle,
                 supabase_store, neo4j_store, next_job_id, restarts, stops, step_failed,
                 recovered>>
memory_vars == <<demo_usage_by_session, conversation_turns_by_thread, demo_calls,
                 query_trace_log, superstep>>
query_vars == <<retrieval_cache, query_embedding_cache, first_bundle, last, n_queries,
                memory_vars>>
vars == <<ingest_vars, query_vars>>

-----------------------------------------------------------------------------
(* Bounds of the model *)

MaxJobs == 2
MaxRestarts == 1
MaxStops == 1
MaxQueries == 2
MaxApiQueries == 5

MaxTraceQueries == 501

MaxBranchQueries == 2
MaxThreadQueries == 3
MaxOrchQueries == 1
MaxStoreCalls == 1

-----------------------------------------------------------------------------
(* Generic helpers for dicts and sequences *)

None == "None"

Put(f, k, v) == [x \in DOMAIN f \cup {k} |-> IF x = k THEN v ELSE f[x]]

Drop(f, k) == [x \in DOMAIN f \ {k} |-> f[x]]

EmptyDict == [x \in {} |-> None]

Max2(a, b) == IF a >= b THEN a ELSE b

Min2(a, b) == IF a <= b THEN a ELSE b

Take(s, n) == SubSeq(s, 1, Min2(n, Len(s)))

\* `v` evaluated once and handed to F: a local variable assigned once
Bind(v, F(_)) == CHOOSE y \in {F(w) : w \in {v}} : TRUE

RECURSIVE SetToSeq(_)
\* the ids of a set in ascending order (dict iteration in insertion order)
SetToSeq(S) ==
    IF S = {} THEN <<>>
    ELSE LET m == CHOOSE x \in S : \A y \in S : x <= y
         IN <<m>> \o SetToSeq(S \ {m})

-----------------------------------------------------------------------------
(* Ingestion contracts *)

INGESTION_STATUS_QUEUED == "queued"
INGESTION_STATUS_PROCESSING == "processing"
INGESTION_STATUS_SUCCESS == "success"
INGESTION_STATUS_FAILED == "failed"

INGESTION_STAGE_QUEUED == "queued"
INGESTION_STAGE_PARSING == "parsing"
INGESTION_STAGE_CHUNKING == "chunking"
INGESTION_STAGE_EMBEDDING == "embedding"
INGESTION_STAGE_UPSERTING == "upserting"
INGESTION_STAGE_COMPLETED == "completed"
INGESTION_STAGE_FAILED == "failed"

SUPPORTED_CONTENT_TYPES ==
    {"text/plain", "text/markdown", "application/pdf",
     "application/vnd.openxmlformats-officedocument.wordprocessingml.document"}

IngestionJob(job_id, status, stage, filename, content_type, user_id, chunk_count, error_message) ==
    [job_id |-> job_id, status |-> status, stage |-> stage, filename |-> filename,
     content_type |-> content_type, user_id |-> user_id,
     chunk_count |-> chunk_count, error_message |-> error_message]

QueuedUpload(job_id, user_id, filename, content_type, file_bytes, user_access_token) ==
    [job_id |-> job_id, user_id |-> user_id, filename |-> filename,
     content_type |-> content_type, file_bytes |-> file_bytes,
     user_access_token |-> user_access_token]

-----------------------------------------------------------------------------
(* Inputs: users, files *)

Users == {"u1", "u2"}

\* verify_supabase_bearer_token always returns the bearer token with the user
TokenOf(user) == IF user = None THEN None ELSE "jwt"

Text(len, words) == [len |-> len, words |-> words]

\* a file is its pages; corrupt: the PDF/DOCX library cannot open it
TextNotes == [corrupt |-> FALSE,
              pages |-> <<Text(29, {<<0, "alpha">>, <<6, "notes">>})>>]
TextBlank == [corrupt |-> FALSE, pages |-> <<Text(4, {})>>]
TextLong == [corrupt |-> FALSE,
             pages |-> <<Text(700, {<<0, "alpha">>, <<650, "beta">>})>>]
PdfTwoPages == [corrupt |-> FALSE,
                pages |-> <<Text(10, {<<0, "gamma">>}), Text(8, {<<2, "beta">>})>>]
PdfCorrupt == [corrupt |-> TRUE, pages |-> <<>>]

-----------------------------------------------------------------------------
(* parsers.py *)

ParsedSegment(page, text) == [page |-> page, text |-> text]

IsBlank(text) == text.words = {}

RECURSIVE JoinPages(_)
\* "\n".join(paragraphs): one separator character between two texts
JoinPages(pages) ==
    IF pages = <<>> THEN Text(0, {})
    ELSE IF Len(pages) = 1 THEN pages[1]
    ELSE LET rest == JoinPages(Tail(pages))
             shift == pages[1].len + 1
         IN Text(shift + rest.len,
                 pages[1].words \cup {<<w[1] + shift, w[2]>> : w \in rest.words})

RECURSIVE PageSegments(_, _)
PageSegments(pages, index) ==
    IF pages = <<>> THEN <<>>
    ELSE (IF IsBlank(pages[1]) THEN <<>> ELSE <<ParsedSegment(index, pages[1])>>)
         \o PageSegments(Tail(pages), index + 1)

_parse_pdf_bytes(file_bytes) ==
    IF file_bytes.corrupt
    THEN [exc |-> "ParsingError", message |-> "Unable to parse PDF file", segments |-> <<>>]
    ELSE [exc |-> None, message |-> None, segments |-> PageSegments(file_bytes.pages, 1)]

_parse_docx_bytes(file_bytes) ==
    IF file_bytes.corrupt
    THEN [exc |-> "ParsingError", message |-> "Unable to parse DOCX file", segments |-> <<>>]
    ELSE LET text == JoinPages(SelectSeq(file_bytes.pages, LAMBDA p : ~IsBlank(p)))
         IN [exc |-> None, message |-> None,
             segments |-> IF IsBlank(text) THEN <<>> ELSE <<ParsedSegment(1, text)>>]

parse_uploaded_file(content_type, file_bytes) ==
    IF content_type \in {"text/plain", "text/markdown"}
    THEN LET text == JoinPages(file_bytes.pages)
         IN [exc |-> None, message |-> None,
             segments |-> IF IsBlank(text) THEN <<>> ELSE <<ParsedSegment(1, text)>>]
    ELSE IF content_type = "application/pdf" THEN _parse_pdf_bytes(file_bytes)
    ELSE IF content_type =
            "application/vnd.openxmlformats-officedocument.wordprocessingml.document"
    THEN _parse_docx_bytes(file_bytes)
    ELSE [exc |-> "ParsingError",
          message |-> "Unsupported file format. Use PDF, DOCX, MD, or TXT.",
          segments |-> <<>>]

-----------------------------------------------------------------------------
(* ingestion/service.py: chunking *)

chunk_size == 600
overlap == 120

RECURSIVE ChunkLoop(_, _)
\* the while loop of _chunk_text from `cursor`
ChunkLoop(text, cursor) ==
    IF cursor >= text.len THEN <<>>
    ELSE LET end == Min2(text.len, cursor + chunk_size)
             snippet == {w[2] : w \in {x \in text.words : x[1] >= cursor /\ x[1] < end}}
             row == IF snippet # {} THEN <<<<cursor, end, snippet>>>> ELSE <<>>
         IN IF end = text.len THEN row
            ELSE row \o ChunkLoop(text, Max2(0, end - overlap))

_chunk_text(text) == IF IsBlank(text) THEN <<>> ELSE ChunkLoop(text, 0)

RECURSIVE ChunkRows(_, _)
\* the first loop of _build_chunks: rows <<page, offset_start, offset_end, content>>
ChunkRows(parsed_segments, global_offset) ==
    IF parsed_segments = <<>> THEN <<>>
    ELSE LET segment == parsed_segments[1]
             rows == _chunk_text(segment.text)
         IN [i \in 1..Len(rows) |->
                <<segment.page, global_offset + rows[i][1],
                  global_offset + rows[i][2], rows[i][3]>>]
            \o ChunkRows(Tail(parsed_segments), global_offset + segment.text.len + 1)

DocumentChunk(chunk_id, content, source, page, offset_start, offset_end, user_id, embedded) ==
    [chunk_id |-> chunk_id, content |-> content, source |-> source, page |-> page,
     offset_start |-> offset_start, offset_end |-> offset_end, user_id |-> user_id,
     embedded |-> embedded]

\* n_vectors: how many vectors embed_documents returned
_build_chunks(job_id, user_id, filename, parsed_segments, n_vectors) ==
    LET chunk_rows == ChunkRows(parsed_segments, 0)
    IN [index \in 1..Len(chunk_rows) |->
           DocumentChunk(<<"chunk", job_id, index>>, chunk_rows[index][4], filename,
                         chunk_rows[index][1], chunk_rows[index][2],
                         chunk_rows[index][3], user_id, index - 1 < n_vectors)]

-----------------------------------------------------------------------------
(* runtime/store.py: the durable snapshot *)

\* a payload written without the chunk lists
persist_runtime_state_without_chunks(jobs, chunks, uploads) ==
    [ingestion_jobs |-> [i \in 1..Cardinality(DOMAIN jobs) |->
                            jobs[SetToSeq(DOMAIN jobs)[i]]],
     private_chunks_by_user |-> EmptyDict,
     queued_uploads |-> [i \in 1..Cardinality(DOMAIN uploads) |->
                            uploads[SetToSeq(DOMAIN uploads)[i]]]]

\* json.dump of the payload: jobs and uploads are lists in dict order
persist_runtime_state(jobs, chunks, uploads) ==
    [ingestion_jobs |-> [i \in 1..Cardinality(DOMAIN jobs) |->
                            jobs[SetToSeq(DOMAIN jobs)[i]]],
     private_chunks_by_user |-> chunks,
     queued_uploads |-> [i \in 1..Cardinality(DOMAIN uploads) |->
                            uploads[SetToSeq(DOMAIN uploads)[i]]]]

RECURSIVE RowsToDict(_, _)
\* jobs[job.job_id] = job for each row, later rows overwrite earlier ones
RowsToDict(rows, acc) ==
    IF rows = <<>> THEN acc
    ELSE RowsToDict(Tail(rows), Put(acc, rows[1].job_id, rows[1]))

_hydrate_ingestion_jobs(raw_jobs) == RowsToDict(raw_jobs, EmptyDict)

_hydrate_queued_uploads(raw_uploads) == RowsToDict(raw_uploads, EmptyDict)

\* a user whose hydrated list is empty gets no entry
_hydrate_private_chunks(raw_chunks) ==
    [u \in {x \in DOMAIN raw_chunks : raw_chunks[x] # <<>>} |-> raw_chunks[u]]

\* the three persisted collections of _build_store
_build_store(persisted) ==
    LET jobs == _hydrate_ingestion_jobs(persisted.ingestion_jobs)
        uploads == _hydrate_queued_uploads(persisted.queued_uploads)
    IN [ingestion_jobs |->
            [j \in DOMAIN jobs \cup DOMAIN uploads |->
                IF j \in DOMAIN jobs THEN jobs[j]
                ELSE IngestionJob(uploads[j].job_id, "queued", INGESTION_STAGE_QUEUED,
                                  uploads[j].filename, uploads[j].content_type,
                                  uploads[j].user_id, 0, None)],
        private_chunks_by_user |->
            _hydrate_private_chunks(persisted.private_chunks_by_user),
        queued_uploads |-> uploads]

-----------------------------------------------------------------------------
(* ingestion/service.py: job records *)

\* _set_stage that replaces the stage and the message but not the status
_set_stage_keeps_status(jobs, job, stage, status, error_message) ==
    Put(jobs, job.job_id,
        [job EXCEPT !.stage = stage, !.error_message = error_message])

\* store.ingestion_jobs after _set_stage (the caller persists)
_set_stage(jobs, job, stage, status, error_message) ==
    Put(jobs, job.job_id,
        [job EXCEPT !.status = status, !.stage = stage,
                    !.error_message = error_message])

\* the stores after enqueue_ingestion_job
enqueue_ingestion_job(job_id, user_id, filename, content_type, file_bytes, user_access_token) ==
    [ingestion_jobs |->
        Put(ingestion_jobs, job_id,
            IngestionJob(job_id, INGESTION_STATUS_QUEUED, INGESTION_STAGE_QUEUED,
                         filename, content_type, user_id, 0, None)),
     queued_uploads |->
        Put(queued_uploads, job_id,
            QueuedUpload(job_id, user_id, filename, content_type, file_bytes,
                         user_access_token))]

\* IngestionWorker.enqueue: raises when the queue is None
enqueue(job_id) ==
    IF ~queue_open
    THEN [exc |-> "RuntimeError", queue |-> worker_queue]
    ELSE [exc |-> None, queue |-> Append(worker_queue, job_id)]

\* the job ids start() re-enqueues, in dict order
queued_job_ids ==
    SetToSeq({j \in DOMAIN ingestion_jobs :
                /\ ingestion_jobs[j].status \in
                       {INGESTION_STATUS_QUEUED, INGESTION_STATUS_PROCESSING}
                /\ j \in DOMAIN queued_uploads})

\* a tail that leaves the upload queued
Finalise_keeps_upload(job_id, upload, processing, chunks) ==
    [private_chunks_by_user |->
        Put(private_chunks_by_user, upload.user_id,
            (IF upload.user_id \in DOMAIN private_chunks_by_user
             THEN private_chunks_by_user[upload.user_id] ELSE <<>>) \o chunks),
     queued_uploads |-> queued_uploads,
     ingestion_jobs |->
        Put(ingestion_jobs, job_id,
            [processing EXCEPT !.status = INGESTION_STATUS_SUCCESS,
                               !.stage = INGESTION_STAGE_COMPLETED,
                               !.chunk_count = Len(chunks),
                               !.error_message = None])]

\* the stores after the tail of process_ingestion_job (lines 238-249)
Finalise(job_id, upload, processing, chunks) ==
    [private_chunks_by_user |->
        Put(private_chunks_by_user, upload.user_id,
            (IF upload.user_id \in DOMAIN private_chunks_by_user
             THEN private_chunks_by_user[upload.user_id] ELSE <<>>) \o chunks),
     queued_uploads |-> Drop(queued_uploads, job_id),
     ingestion_jobs |->
        Put(ingestion_jobs, job_id,
            [processing EXCEPT !.status = INGESTION_STATUS_SUCCESS,
                               !.stage = INGESTION_STAGE_COMPLETED,
                               !.chunk_count = Len(chunks),
                               !.error_message = None])]

-----------------------------------------------------------------------------
(* The app and the ingestion worker: one action per handler or worker step.  *)
(* process_ingestion_job is synchronous, so the handlers of the event loop   *)
(* run only while the worker task waits in queue.get (wpc = "idle"); the     *)
(* snapshot is rewritten at each stage, so the worker is modelled stage by   *)
(* stage and a process restart may fall between any two of them.             *)

\* the "__shutdown__" token of stop()
SHUTDOWN == 0

EmbedOutcomes == {"ok", "short", "RuntimeError", "ValueError"}
UpsertOutcomes == {"ok", "HTTPStatusError"}

NoCall == [kind |-> "none"]

NoSuperstep == [phase |-> "idle"]

query_unchanged == UNCHANGED query_vars

\* POST /api/v1/private/ingestion/upload
upload_private_file(user_id, content_type, file_bytes) ==
    /\ lifecycle = "serving" /\ wpc = "idle"
    /\ next_job_id <= MaxJobs
    /\ LET job_id == next_job_id
           st == enqueue_ingestion_job(job_id, user_id, "notes", content_type,
                                       file_bytes, TokenOf(user_id))
           put == enqueue(job_id)
       IN /\ ingestion_jobs' = st.ingestion_jobs
          /\ queued_uploads' = st.queued_uploads
          /\ snapshot' = persist_runtime_state(st.ingestion_jobs,
                                               private_chunks_by_user, st.queued_uploads)
          /\ worker_queue' = put.queue
    /\ next_job_id' = next_job_id + 1
    /\ UNCHANGED <<private_chunks_by_user, queue_open, task, shutdown, wpc, wjob,
                   wchunks, lifecycle, supabase_store, neo4j_store, restarts,
                   stops, step_failed, recovered>>
    /\ query_unchanged

\* IngestionWorker.start
start ==
    /\ lifecycle \in {"init", "serving", "stopped"} /\ wpc = "idle"
    /\ IF task \in {None, "done", "raised"}
       THEN /\ shutdown' = FALSE
            /\ queue_open' = TRUE
            /\ task' = "running"
            /\ worker_queue' = queued_job_ids
            /\ recovered' = {queued_job_ids[i] : i \in DOMAIN queued_job_ids}
       ELSE UNCHANGED <<shutdown, queue_open, task, worker_queue, recovered>>
    /\ lifecycle' = "serving"
    /\ UNCHANGED <<ingestion_jobs, queued_uploads, private_chunks_by_user, snapshot,
                   wpc, wjob, wchunks, supabase_store, neo4j_store, next_job_id, restarts, stops,
                   step_failed>>
    /\ query_unchanged

\* IngestionWorker.stop up to `await self._task`
stop_begin ==
    /\ lifecycle = "serving" /\ wpc = "idle"
    /\ stops < MaxStops
    /\ stops' = stops + 1
    /\ IF task = None
       THEN /\ lifecycle' = "stopped"
            /\ UNCHANGED <<shutdown, worker_queue>>
       ELSE /\ shutdown' = TRUE
            /\ worker_queue' = IF queue_open THEN Append(worker_queue, SHUTDOWN)
                               ELSE worker_queue
            /\ lifecycle' = "stopping"
    /\ UNCHANGED <<ingestion_jobs, queued_uploads, private_chunks_by_user, snapshot,
                   queue_open, task, wpc, wjob, wchunks, supabase_store, neo4j_store, next_job_id,
                   restarts, step_failed, recovered>>
    /\ query_unchanged

\* IngestionWorker.stop from `await self._task` on: the task's exception is re-raised
stop_end ==
    /\ lifecycle = "stopping" /\ task \in {"done", "raised"}
    /\ IF task = "done"
       THEN /\ task' = None
            /\ queue_open' = FALSE
            /\ worker_queue' = <<>>
       ELSE UNCHANGED <<task, queue_open, worker_queue>>
    /\ lifecycle' = "stopped"
    /\ UNCHANGED <<ingestion_jobs, queued_uploads, private_chunks_by_user, snapshot,
                   shutdown, wpc, wjob, wchunks, supabase_store, neo4j_store, next_job_id, restarts,
                   stops, step_failed, recovered>>
    /\ query_unchanged

\* _run: queue.get, the sentinel test, and process_ingestion_job up to stage parsing
worker_get ==
    /\ task = "running" /\ wpc = "idle" /\ worker_queue # <<>>
    /\ LET job_id == Head(worker_queue)
       IN /\ worker_queue' = Tail(worker_queue)
          /\ recovered' = recovered \ {job_id}
          /\ IF job_id = SHUTDOWN /\ shutdown
             THEN /\ task' = "done"
                  /\ UNCHANGED <<ingestion_jobs, snapshot, wpc, wjob, step_failed>>
             ELSE IF job_id \notin DOMAIN queued_uploads
                     \/ job_id \notin DOMAIN ingestion_jobs
             THEN \* ValueError("Unknown ingestion job"): continue
                  UNCHANGED <<task, ingestion_jobs, snapshot, wpc, wjob, step_failed>>
             ELSE LET jobs == _set_stage(ingestion_jobs, ingestion_jobs[job_id],
                                         INGESTION_STAGE_PARSING,
                                         INGESTION_STATUS_PROCESSING, None)
                  IN /\ ingestion_jobs' = jobs
                     /\ snapshot' = persist_runtime_state(jobs, private_chunks_by_user,
                                                          queued_uploads)
                     /\ wpc' = "parsing"
                     /\ wjob' = job_id
                     /\ step_failed' = Drop(step_failed, job_id)
                     /\ UNCHANGED task
    /\ UNCHANGED <<queued_uploads, private_chunks_by_user, queue_open, shutdown,
                   wchunks, lifecycle, supabase_store, neo4j_store, next_job_id, restarts, stops>>
    /\ query_unchanged

\* a stage of process_ingestion_job that ends in _set_stage(..., failed)
FailJob(message, kind) ==
    LET jobs == _set_stage(ingestion_jobs, ingestion_jobs[wjob], INGESTION_STAGE_FAILED,
                           INGESTION_STATUS_FAILED, message)
    IN /\ ingestion_jobs' = jobs
       /\ snapshot' = persist_runtime_state(jobs, private_chunks_by_user, queued_uploads)
       /\ wpc' = "idle"
       /\ wjob' = 0
       /\ wchunks' = <<>>
       /\ step_failed' = Put(step_failed, wjob, kind)
       /\ UNCHANGED <<queued_uploads, private_chunks_by_user, task>>

\* a stage of process_ingestion_job that ends in _set_stage(..., processing)
AdvanceJob(stage, pc, chunks) ==
    LET jobs == _set_stage(ingestion_jobs, ingestion_jobs[wjob], stage,
                           INGESTION_STATUS_PROCESSING, None)
    IN /\ ingestion_jobs' = jobs
       /\ snapshot' = persist_runtime_state(jobs, private_chunks_by_user, queued_uploads)
       /\ wpc' = pc
       /\ wchunks' = chunks
       /\ UNCHANGED <<queued_uploads, private_chunks_by_user, task, wjob, step_failed>>

\* the tail of process_ingestion_job
CompleteJob(chunks) ==
    LET st == Finalise(wjob, queued_uploads[wjob], ingestion_jobs[wjob], chunks)
    IN /\ ingestion_jobs' = st.ingestion_jobs
       /\ queued_uploads' = st.queued_uploads
       /\ private_chunks_by_user' = st.private_chunks_by_user
       /\ snapshot' = persist_runtime_state(st.ingestion_jobs, st.private_chunks_by_user,
                                            st.queued_uploads)
       /\ wpc' = "idle"
       /\ wjob' = 0
       /\ wchunks' = <<>>
       /\ UNCHANGED <<task, step_failed>>

worker_common ==
    /\ UNCHANGED <<worker_queue, queue_open, shutdown, lifecycle, supabase_store, neo4j_store,
                   next_job_id, restarts, stops, recovered>>
    /\ query_unchanged

\* process_ingestion_job lines 174-191: content type check, parse, stage chunking
worker_parse ==
    /\ task = "running" /\ wpc = "parsing"
    /\ LET upload == queued_uploads[wjob]
           parsed == parse_uploaded_file(upload.content_type, upload.file_bytes)
       IN IF upload.content_type \notin SUPPORTED_CONTENT_TYPES
          THEN FailJob("Unsupported file format. Use PDF, DOCX, MD, or TXT.",
                       "unsupported")
          ELSE IF parsed.exc = "ParsingError"
          THEN FailJob(parsed.message, "parse")
          ELSE AdvanceJob(INGESTION_STAGE_CHUNKING, "chunking", <<>>)
    /\ worker_common

\* process_ingestion_job lines 192-197: stage embedding
worker_set_embedding ==
    /\ task = "running" /\ wpc = "chunking"
    /\ AdvanceJob(INGESTION_STAGE_EMBEDDING, "embedding", <<>>)
    /\ worker_common

\* process_ingestion_job lines 198-222 (and 238-249 without a remote store):
\* _build_chunks with the provider's outcome; only ParsingError is caught here,
\* _run catches ValueError, anything else ends the worker task
worker_build_chunks(outcome) ==
    /\ task = "running" /\ wpc = "embedding"
    /\ LET upload == queued_uploads[wjob]
           parsed == parse_uploaded_file(upload.content_type, upload.file_bytes)
           n_rows == Len(ChunkRows(parsed.segments, 0))
           chunks == _build_chunks(wjob, upload.user_id, upload.filename,
                                   parsed.segments,
                                   IF outcome = "short" THEN n_rows - 1 ELSE n_rows)
       IN /\ (n_rows = 0) => (outcome = "ok")
          /\ IF outcome \in {"RuntimeError", "ValueError"}
             THEN /\ task' = IF outcome = "ValueError" THEN task ELSE "raised"
                  /\ wpc' = "idle"
                  /\ wjob' = 0
                  /\ wchunks' = <<>>
                  /\ step_failed' = Put(step_failed, wjob, "embed")
                  /\ UNCHANGED <<ingestion_jobs, queued_uploads,
                                 private_chunks_by_user, snapshot>>
             ELSE IF supabase_store /\ upload.user_access_token # None
             THEN AdvanceJob(INGESTION_STAGE_UPSERTING, "upserting", chunks)
             ELSE CompleteJob(chunks)
    /\ worker_common

\* process_ingestion_job lines 223-249: the upsert loop, then the tail
worker_upsert(outcome) ==
    /\ task = "running" /\ wpc = "upserting"
    /\ (wchunks = <<>>) => (outcome = "ok")
    /\ IF outcome = "ok"
       THEN CompleteJob(wchunks)
       ELSE FailJob("Supabase upsert failed", "upsert")
    /\ worker_common

\* the process dies and a new one is built from the snapshot (_build_store)
restart ==
    /\ restarts < MaxRestarts
    /\ restarts' = restarts + 1
    /\ LET st == _build_store(snapshot)
       IN /\ ingestion_jobs' = st.ingestion_jobs
          /\ queued_uploads' = st.queued_uploads
          /\ private_chunks_by_user' = st.private_chunks_by_user
    /\ worker_queue' = <<>>
    /\ queue_open' = FALSE
    /\ task' = None
    /\ shutdown' = FALSE
    /\ wpc' = "idle"
    /\ wjob' = 0
    /\ wchunks' = <<>>
    /\ lifecycle' = "init"
    /\ recovered' = {}
    /\ retrieval_cache' = EmptyDict
    /\ query_embedding_cache' = {}
    /\ first_bundle' = EmptyDict
    /\ last' = NoCall
    /\ demo_usage_by_session' = EmptyDict
    /\ conversation_turns_by_thread' = EmptyDict
    /\ demo_calls' = EmptyDict
    /\ query_trace_log' = <<>>
    /\ superstep' = NoSuperstep
    /\ UNCHANGED <<snapshot, supabase_store, neo4j_store, next_job_id, stops, step_failed, n_queries>>

-----------------------------------------------------------------------------
(* Specifications *)

UploadInputs ==
    {<<"text/plain", TextNotes>>, <<"text/plain", TextBlank>>,
     <<"text/plain", TextLong>>, <<"application/pdf", PdfTwoPages>>,
     <<"application/pdf", PdfCorrupt>>, <<"image/png", TextNotes>>}

Init ==
    /\ ingestion_jobs = EmptyDict
    /\ queued_uploads = EmptyDict
    /\ private_chunks_by_user = EmptyDict
    /\ snapshot = persist_runtime_state(EmptyDict, EmptyDict, EmptyDict)
    /\ worker_queue = <<>>
    /\ queue_open = FALSE
    /\ task = None
    /\ shutdown = FALSE
    /\ wpc = "idle"
    /\ wjob = 0
    /\ wchunks = <<>>
    /\ lifecycle = "init"
    /\ supabase_store \in BOOLEAN
    /\ neo4j_store \in BOOLEAN
    /\ next_job_id = 1
    /\ restarts = 0
    /\ stops = 0
    /\ step_failed = EmptyDict
    /\ recovered = {}
    /\ retrieval_cache = EmptyDict
    /\ query_embedding_cache = {}
    /\ first_bundle = EmptyDict
    /\ last = NoCall
    /\ n_queries = 0
    /\ demo_usage_by_session = EmptyDict
    /\ conversation_turns_by_thread = EmptyDict
    /\ demo_calls = EmptyDict
    /\ query_trace_log = <<>>
    /\ superstep = NoSuperstep

Upload == \E user_id \in Users, input \in UploadInputs :
              upload_private_file(user_id, input[1], input[2])

WorkerBuildChunks == \E outcome \in EmbedOutcomes : worker_build_chunks(outcome)

WorkerUpsert == \E outcome \in UpsertOutcomes : worker_upsert(outcome)

WorkerStep ==
    \/ worker_get
    \/ worker_parse
    \/ worker_set_embedding
    \/ WorkerBuildChunks
    \/ WorkerUpsert

NextIngest ==
    \/ Upload
    \/ start
    \/ stop_begin
    \/ stop_end
    \/ WorkerStep
    \/ restart

\* uploads, the worker, stop/start and restarts from the snapshot
SpecIngest == Init /\ [][NextIngest]_vars

\* uploads and the worker alone, with the worker task scheduled fairly:
\* no stop is requested and the process is not restarted
NextIngestLive ==
    \/ Upload
    \/ start
    \/ WorkerStep

SpecIngestLive == Init /\ [][NextIngestLive]_vars /\ WF_vars(WorkerStep)

-----------------------------------------------------------------------------
(* Claims on the ingestion worker *)

StageRank(stage) ==
    CASE stage = INGESTION_STAGE_QUEUED -> 0
      [] stage = INGESTION_STAGE_PARSING -> 1
      [] stage = INGESTION_STAGE_CHUNKING -> 2
      [] stage = INGESTION_STAGE_EMBEDDING -> 3
      [] stage = INGESTION_STAGE_UPSERTING -> 4
      [] stage = INGESTION_STAGE_COMPLETED -> 5
      [] OTHER -> 6

TerminalStages == {INGESTION_STAGE_COMPLETED, INGESTION_STAGE_FAILED}

\* C1: across upload, worker processing, stop, start with its recovery and a
\* restart from the snapshot, no job's stage moves backwards in
\* queued < parsing < chunking < embedding < upserting < completed, and a job
\* in completed or failed stays there.
C1_StageNeverRegresses ==
    [][\A j \in DOMAIN ingestion_jobs :
          /\ j \in DOMAIN ingestion_jobs'
          /\ ingestion_jobs[j].stage \in TerminalStages
                => ingestion_jobs'[j].stage = ingestion_jobs[j].stage
          /\ ingestion_jobs'[j].stage # INGESTION_STAGE_FAILED
                => StageRank(ingestion_jobs'[j].stage)
                      >= StageRank(ingestion_jobs[j].stage)]_vars

\* C2: once a step of processing a job has failed (unsupported type, parse
\* error, error while embedding, error from the remote upsert) the job is in
\* stage failed with status failed and an error message; it is never left in
\* status processing.
C2_FailureEndsFailed ==
    \A j \in DOMAIN step_failed :
        /\ j \in DOMAIN ingestion_jobs
        /\ ingestion_jobs[j].stage = INGESTION_STAGE_FAILED
        /\ ingestion_jobs[j].status = INGESTION_STATUS_FAILED
        /\ ingestion_jobs[j].error_message # None

\* C3: with the worker task scheduled fairly and no stop requested, every
\* uploaded job eventually has status success or failed.
C3_EveryJobTerminates ==
    \A j \in 1..MaxJobs :
        (j \in DOMAIN ingestion_jobs)
            ~> (/\ j \in DOMAIN ingestion_jobs
                /\ ingestion_jobs[j].status \in
                      {INGESTION_STATUS_SUCCESS, INGESTION_STATUS_FAILED})

-----------------------------------------------------------------------------
(* retrieval/service.py: scoring and reranking.  A query is the sequence of  *)
(* its lower-case words; the content of a hit is the set of its tokens.      *)

\* RetrievalHit.score is a float: scores are kept in thousandths
SCALE == 1000

STOP_WORDS ==
    {"a", "an", "and", "are", "for", "from", "in", "is", "of", "on", "the", "to", "with"}

RetrievalHit(source_id, score, content, source_type) ==
    [source_id |-> source_id, score |-> score, content |-> content,
     source_type |-> source_type]

RetrievalBundle(route, hits, degraded, backend_failures, rerank_strategy) ==
    [route |-> route, hits |-> hits, degraded |-> degraded,
     backend_failures |-> backend_failures, rerank_strategy |-> rerank_strategy]

\* {token for token in query.lower().split() if token}
Tokens(query) == {query[i] : i \in DOMAIN query}

_token_overlap_score(query, content) ==
    LET query_tokens == Tokens(query)
    IN IF query_tokens = {} THEN 0
       ELSE (Cardinality(query_tokens \cap content) * SCALE)
                \div Cardinality(query_tokens)

\* " ".join(sorted(tokens)) is given by the number of times each token occurs;
\* a query of stop words only keeps its text
_semantic_query_key(query) ==
    LET tokens == SelectSeq(query, LAMBDA token : token \notin STOP_WORDS)
    IN IF tokens = <<>>
       THEN [sorted |-> EmptyDict, stripped |-> query]
       ELSE [sorted |-> [t \in Tokens(tokens) |->
                            Cardinality({i \in DOMAIN tokens : tokens[i] = t})],
             stripped |-> <<>>]

_normalize_scores(values) ==
    LET S == {values[i] : i \in DOMAIN values}
        minimum == CHOOSE x \in S : \A y \in S : x <= y
        maximum == CHOOSE x \in S : \A y \in S : x >= y
    IN IF values = <<>> THEN EmptyDict
       ELSE IF maximum <= minimum THEN [value \in S |-> SCALE]
       ELSE [value \in S |-> ((value - minimum) * SCALE) \div (maximum - minimum)]

RECURSIVE InsertByScore(_, _)
\* `hit` goes behind every row whose score is at least its own
InsertByScore(rows, hit) ==
    IF rows = <<>> THEN <<hit>>
    ELSE IF rows[1].score >= hit.score
    THEN <<rows[1]>> \o InsertByScore(Tail(rows), hit)
    ELSE <<hit>> \o rows

RECURSIVE SortedPrefix(_, _)
\* the first n rows of `hits`, sorted
SortedPrefix(hits, n) ==
    IF n = 0 THEN <<>>
    ELSE Bind(SortedPrefix(hits, n - 1), LAMBDA rows : InsertByScore(rows, hits[n]))

\* sorted(hits, key=lambda row: row.score, reverse=True): stable
SortedByScore(hits) == Bind(hits, LAMBDA rows : SortedPrefix(rows, Len(rows)))

RECURSIVE Deduped(_, _)
\* deduped.setdefault(hit.source_id, hit) over the rows in order
Deduped(hits, seen) ==
    IF hits = <<>> THEN <<>>
    ELSE IF hits[1].source_id \in seen THEN Deduped(Tail(hits), seen)
    ELSE <<hits[1]>> \o Deduped(Tail(hits), seen \cup {hits[1].source_id})

_heuristic_rerank_hits(query, hits, limit) ==
    IF hits = <<>> THEN <<>>
    ELSE LET grouped_scores(source_type) ==
                 LET rows == SelectSeq(hits, LAMBDA h : h.source_type = source_type)
                 IN [i \in DOMAIN rows |-> rows[i].score]
             reranked ==
                 [i \in DOMAIN hits |->
                     LET hit == hits[i]
                         semantic_score ==
                             _normalize_scores(grouped_scores(hit.source_type))[hit.score]
                         lexical_score == _token_overlap_score(query, hit.content)
                     IN [hit EXCEPT !.score =
                                (7 * semantic_score + 3 * lexical_score) \div 10]]
         IN Bind(SortedByScore(reranked), LAMBDA ranked : Take(Deduped(ranked, {}), limit))

\* the reranker's reply: "error" (import, provider or JSON failure), or JSON rows
\* scoring the first candidate only, above the allowed range
LlmReplies == {"error", "rows"}

_llm_rerank_hits(query, hits, limit, llm) ==
    IF hits = <<>> \/ llm = "error" THEN <<>>
    ELSE LET payload == [id \in {hits[1].source_id} |-> 2 * SCALE]
             score_by_id == [id \in DOMAIN payload |-> Max2(0, Min2(SCALE, payload[id]))]
             kept == SelectSeq(hits, LAMBDA h : h.source_id \in DOMAIN score_by_id)
             reranked == [i \in DOMAIN kept |->
                             [kept[i] EXCEPT !.score = score_by_id[kept[i].source_id]]]
         IN Bind(SortedByScore(reranked), LAMBDA ranked : Take(Deduped(ranked, {}), limit))

_rerank_hits(query, hits, limit, backend, runtime_key, llm) ==
    Bind(IF backend = "llm" /\ runtime_key # None
         THEN _llm_rerank_hits(query, hits, limit, llm) ELSE <<>>,
         LAMBDA reranked :
            IF reranked # <<>>
            THEN [hits |-> reranked, strategy |-> "llm_rerank_v1"]
            ELSE [hits |-> _heuristic_rerank_hits(query, hits, limit),
                  strategy |-> "score_normalization_v2"])

-----------------------------------------------------------------------------
(* retrieval/service.py: backends and retrieve.  An operator that can raise  *)
(* returns a record whose exc field is the exception ("None": it returned).  *)

\* the seeded corpora of the store
shared_demo_documents ==
    <<[chunk_id |-> <<"demo", 0, 1>>, content |-> {"alpha", "notes"}],
      [chunk_id |-> <<"demo", 0, 2>>, content |-> {"beta", "notes"}]>>

shared_graph_edges ==
    <<[edge_id |-> <<"graph-edge", 0, 1>>, content |-> {"nolan", "directed", "inception"}],
      [edge_id |-> <<"graph-edge", 0, 2>>, content |-> {"nolan", "directed", "tenet"}]>>

\* what the remote stores hold
RemoteDocHits ==
    <<RetrievalHit(<<"remote", 0, 1>>, (8 * SCALE) \div 10, {"alpha"}, "private_document")>>

RemoteGraphHits ==
    <<RetrievalHit(<<"title", 0, 1>>, (6 * SCALE) \div 10, {"inception"}, "shared_graph")>>

\* outcome of a call to a remote store; "absent": no store is configured
StoreOutcomes == {"absent", "hits", "empty", "raise"}

\* _fallback_document_hits reading the chunks of whoever uploaded first
_fallback_document_hits_of_any_user(chunks_by_user, user_id, query) ==
    LET chunks == IF DOMAIN chunks_by_user = {} THEN <<>>
                  ELSE chunks_by_user[CHOOSE u \in DOMAIN chunks_by_user :
                                         \A v \in DOMAIN chunks_by_user :
                                            Len(chunks_by_user[u]) >= Len(chunks_by_user[v])]
        hits == [i \in DOMAIN chunks |->
                    RetrievalHit(chunks[i].chunk_id,
                                 _token_overlap_score(query, chunks[i].content),
                                 chunks[i].content, "private_document")]
    IN SortedByScore(SelectSeq(hits, LAMBDA h : h.score > 0))

_fallback_document_hits(chunks_by_user, user_id, query) ==
    LET chunks == IF user_id \in DOMAIN chunks_by_user THEN chunks_by_user[user_id]
                  ELSE <<>>
        hits == IF user_id # None
                THEN [i \in DOMAIN chunks |->
                         RetrievalHit(chunks[i].chunk_id,
                                      _token_overlap_score(query, chunks[i].content),
                                      chunks[i].content, "private_document")]
                ELSE [i \in DOMAIN shared_demo_documents |->
                         RetrievalHit(shared_demo_documents[i].chunk_id,
                                      _token_overlap_score(
                                          query, shared_demo_documents[i].content),
                                      shared_demo_documents[i].content, "demo_document")]
    IN SortedByScore(SelectSeq(hits, LAMBDA h : h.score > 0))

_fallback_graph_hits(query) ==
    LET hits == [i \in DOMAIN shared_graph_edges |->
                    RetrievalHit(shared_graph_edges[i].edge_id,
                                 _token_overlap_score(query, shared_graph_edges[i].content),
                                 shared_graph_edges[i].content, "shared_graph")]
    IN SortedByScore(SelectSeq(hits, LAMBDA h : h.score > 0))

\* embed: "ok", or the exception embed_query raises
_query_embedding(embedding_cache, query, embed) ==
    LET semantic_key == _semantic_query_key(query)
    IN IF semantic_key \in embedding_cache
       THEN [exc |-> None, cache |-> embedding_cache, calls |-> 0]
       ELSE IF embed # "ok"
       THEN [exc |-> embed, cache |-> embedding_cache, calls |-> 1]
       ELSE [exc |-> None, cache |-> embedding_cache \cup {semantic_key}, calls |-> 1]

\* raised: which of the embedding provider and the remote store raised
DocResult(hits, backend_failures, cache, calls, raised) ==
    [hits |-> hits, backend_failures |-> backend_failures, exc |-> None,
     query_embedding_cache |-> cache, calls |-> calls, raised |-> raised]

_document_hits(chunks_by_user, embedding_cache, query, user_id, user_access_token, supabase, embed, limit) ==
    Bind(_query_embedding(embedding_cache, query, embed), LAMBDA vector :
    Bind(Take(_fallback_document_hits(chunks_by_user, user_id, query), limit),
         LAMBDA fallback_hits :
       IF ~(user_id # None /\ user_access_token # None /\ supabase # "absent")
       THEN DocResult(fallback_hits, <<>>, embedding_cache, 0, {})
       ELSE IF vector.exc # None
       THEN DocResult(fallback_hits, <<<<"supabase", vector.exc>>>>, vector.cache,
                      vector.calls, {"embedding"})
       ELSE IF supabase = "raise"
       THEN DocResult(fallback_hits, <<<<"supabase", "ConnectionError">>>>,
                      vector.cache, vector.calls + 1, {"supabase"})
       ELSE IF supabase = "hits"
       THEN DocResult(Take(RemoteDocHits, limit), <<>>, vector.cache, vector.calls + 1, {})
       ELSE DocResult(fallback_hits, <<>>, vector.cache, vector.calls + 1, {})))

GraphResult(hits, backend_failures, calls, raised) ==
    [hits |-> hits, backend_failures |-> backend_failures, exc |-> None,
     calls |-> calls, raised |-> raised]

\* _graph_hits without its try/except around search_edges
_graph_hits_unguarded(query, neo4j, limit) ==
    IF neo4j = "raise"
    THEN [GraphResult(<<>>, <<>>, 1, {"neo4j"}) EXCEPT !.exc = "ServiceUnavailable"]
    ELSE IF neo4j = "hits" THEN GraphResult(Take(RemoteGraphHits, limit), <<>>, 1, {})
    ELSE GraphResult(Take(_fallback_graph_hits(query), limit), <<>>,
                     IF neo4j = "absent" THEN 0 ELSE 1, {})

_graph_hits(query, neo4j, limit) ==
    Bind(Take(_fallback_graph_hits(query), limit), LAMBDA fallback_hits :
       IF neo4j = "absent" THEN GraphResult(fallback_hits, <<>>, 0, {})
       ELSE IF neo4j = "raise"
       THEN GraphResult(fallback_hits, <<<<"neo4j", "ServiceUnavailable">>>>, 1, {"neo4j"})
       ELSE IF neo4j = "hits" THEN GraphResult(Take(RemoteGraphHits, limit), <<>>, 1, {})
       ELSE GraphResult(fallback_hits, <<>>, 1, {}))

CountResult(count, backend_failures, calls, raised) ==
    [count |-> count, backend_failures |-> backend_failures, exc |-> None,
     calls |-> calls, raised |-> raised]

_count_documents(chunks_by_user, user_id, user_access_token, supabase) ==
    LET local == IF user_id # None
                 THEN (IF user_id \in DOMAIN chunks_by_user
                       THEN Len(chunks_by_user[user_id]) ELSE 0)
                 ELSE Len(shared_demo_documents)
    IN IF ~(user_id # None /\ user_access_token # None /\ supabase # "absent")
       THEN CountResult(local, <<>>, 0, {})
       ELSE IF supabase = "raise"
       THEN CountResult(local, <<<<"supabase", "ConnectionError">>>>, 1, {"supabase"})
       ELSE CountResult(IF supabase = "hits" THEN Len(RemoteDocHits) ELSE 0, <<>>, 1, {})

_count_graph_edges(neo4j) ==
    IF neo4j = "absent" THEN CountResult(Len(shared_graph_edges), <<>>, 0, {})
    ELSE IF neo4j = "raise"
    THEN CountResult(Len(shared_graph_edges), <<<<"neo4j", "ServiceUnavailable">>>>, 1,
                     {"neo4j"})
    ELSE CountResult(IF neo4j = "hits" THEN Len(RemoteGraphHits) ELSE 0, <<>>, 1, {})

\* what the collaborators of one call do: the outcome of the remote vector store
\* (supabase), of the remote graph store (neo4j), of embed_query (embed), the
\* rerank settings and the reranker's reply (llm)
Env(supabase, neo4j, embed, rerank_backend, runtime_key, llm) ==
    [supabase |-> supabase, neo4j |-> neo4j, embed |-> embed,
     rerank_backend |-> rerank_backend, rerank_model |-> "gemini-2.5-flash",
     runtime_key |-> runtime_key, llm |-> llm]

\* the outcome of the branch of retrieve for `route`
Retrieved(exc, bundle, embedding_cache, calls, raised) ==
    [exc |-> exc, bundle |-> bundle, query_embedding_cache |-> embedding_cache,
     calls |-> calls, raised |-> raised]

FirstExc(a, b) == IF a # None THEN a ELSE b

\* retrieve lines 405-527: the branch for `route`, on a cache miss
RetrieveRoute(embedding_cache, chunks_by_user, route, query, user_id, user_access_token, env) ==
    LET doc(limit) == _document_hits(chunks_by_user, embedding_cache, query, user_id,
                                     user_access_token, env.supabase, env.embed, limit)
        graph(limit) == _graph_hits(query, env.neo4j, limit)
        rerank(hits, limit) == _rerank_hits(query, hits, limit, env.rerank_backend,
                                            env.runtime_key, env.llm)
        bundle(hits, backend_failures, rerank_strategy) ==
            RetrievalBundle(route, hits, backend_failures # <<>>, backend_failures,
                            rerank_strategy)
    IN IF route = "graph"
       THEN Bind(graph(8), LAMBDA g :
            Bind(rerank(g.hits, 5), LAMBDA r :
               Retrieved(g.exc, bundle(r.hits, g.backend_failures, r.strategy),
                         embedding_cache, g.calls, g.raised)))
       ELSE IF route = "document"
       THEN Bind(doc(8), LAMBDA d :
            Bind(rerank(d.hits, 5), LAMBDA r :
               Retrieved(d.exc, bundle(r.hits, d.backend_failures, r.strategy),
                         d.query_embedding_cache, d.calls, d.raised)))
       ELSE IF route = "hybrid"
       THEN Bind(doc(10), LAMBDA d :
            Bind(graph(10), LAMBDA g :
            Bind(rerank(d.hits \o g.hits, 6), LAMBDA r :
               Retrieved(FirstExc(d.exc, g.exc),
                         bundle(r.hits, d.backend_failures \o g.backend_failures,
                                r.strategy),
                         d.query_embedding_cache,
                         d.calls + (IF d.exc = None THEN g.calls ELSE 0),
                         d.raised \cup (IF d.exc = None THEN g.raised ELSE {})))))
       ELSE IF route = "aggregate"
       THEN Bind(_count_documents(chunks_by_user, user_id, user_access_token,
                                  env.supabase), LAMBDA d :
            Bind(_count_graph_edges(env.neo4j), LAMBDA g :
               Retrieved(FirstExc(d.exc, g.exc),
                         bundle(<<RetrievalHit(<<"aggregate-count", 0, 0>>, SCALE,
                                               [documents |-> d.count,
                                                graph_edges |-> g.count,
                                                total |-> d.count + g.count],
                                               "aggregate")>>,
                                d.backend_failures \o g.backend_failures,
                                "aggregate_count"),
                         embedding_cache,
                         d.calls + (IF d.exc = None THEN g.calls ELSE 0),
                         d.raised \cup (IF d.exc = None THEN g.raised ELSE {}))))
       ELSE Retrieved(None, RetrievalBundle(route, <<>>, FALSE, <<>>, "none"),
                      embedding_cache, 0, {})

\* the cache key built from the text of the query instead of its semantic key
CacheKey_on_query_text(route, query, user_id, env) ==
    <<route, user_id, [sorted |-> EmptyDict, stripped |-> query], env.rerank_backend,
      env.rerank_model>>

CacheKey(route, query, user_id, env) ==
    <<route, user_id, _semantic_query_key(query), env.rerank_backend, env.rerank_model>>

\* retrieve: the bundle, the two caches afterwards, and what the call did:
\* from_cache (answered from retrieval_cache), calls (calls to a remote store or
\* to the embedding provider), raised (which of them raised)
retrieve(cache, embedding_cache, chunks_by_user, route, query, user_id, user_access_token, env) ==
    LET cache_key == CacheKey(route, query, user_id, env)
    IN IF cache_key \in DOMAIN cache
       THEN [exc |-> None, bundle |-> cache[cache_key], retrieval_cache |-> cache,
             query_embedding_cache |-> embedding_cache, from_cache |-> TRUE,
             calls |-> 0, raised |-> {}]
       ELSE Bind(RetrieveRoute(embedding_cache, chunks_by_user, route, query, user_id,
                               user_access_token, env),
                 LAMBDA result :
                    IF result.exc # None
                    THEN [exc |-> result.exc, bundle |-> [route |-> route],
                          retrieval_cache |-> cache,
                          query_embedding_cache |-> result.query_embedding_cache,
                          from_cache |-> FALSE, calls |-> result.calls,
                          raised |-> result.raised]
                    ELSE [exc |-> None, bundle |-> result.bundle,
                          retrieval_cache |-> Put(cache, cache_key, result.bundle),
                          query_embedding_cache |-> result.query_embedding_cache,
                          from_cache |-> FALSE, calls |-> result.calls,
                          raised |-> result.raised])

-----------------------------------------------------------------------------
(* orchestration/service.py: routing and planning.  A hint of several words  *)
(* is the sequence of its words.                                             *)

GRAPH_HINTS ==
    {<<"graph">>, <<"relationship">>, <<"depends">>, <<"netflix">>, <<"cypher">>,
     <<"director">>, <<"directed">>, <<"actor">>, <<"actors">>, <<"cast">>,
     <<"genre">>, <<"country">>, <<"rating">>, <<"title">>, <<"titles">>,
     <<"movie">>, <<"show">>, <<"season">>, <<"seasons">>}

DOC_HINTS ==
    {<<"document">>, <<"doc">>, <<"pdf">>, <<"docx">>, <<"file">>, <<"notes">>,
     <<"report">>, <<"upload">>}

COUNT_HINTS == {<<"count">>, <<"how", "many">>, <<"number", "of">>, <<"total">>}

GRAPH_QUERY_PATTERNS ==
    {<<"who", "directed">>, <<"who", "stars">>, <<"who", "acted">>, <<"cast", "of">>,
     <<"genre", "of">>, <<"what", "genre">>, <<"which", "genre">>,
     <<"what", "country">>, <<"which", "country">>, <<"what", "rating">>,
     <<"release", "year">>}

_contains_hint(normalized_query, hint) ==
    \E i \in 1..Len(normalized_query) :
        /\ i + Len(hint) - 1 <= Len(normalized_query)
        /\ SubSeq(normalized_query, i, i + Len(hint) - 1) = hint

_contains_any_hint(normalized_query, hints) ==
    \E hint \in hints : _contains_hint(normalized_query, hint)

_is_graph_domain_question(normalized_query) ==
    \/ _contains_any_hint(normalized_query, GRAPH_QUERY_PATTERNS)
    \/ _contains_any_hint(normalized_query, GRAPH_HINTS)

\* select_route that tests for hybrid before it tests for a count
select_route_hybrid_first(query) ==
    LET has_graph == _is_graph_domain_question(query)
        has_docs == _contains_any_hint(query, DOC_HINTS)
        is_count == _contains_any_hint(query, COUNT_HINTS)
    IN IF has_graph /\ has_docs THEN "hybrid"
       ELSE IF is_count THEN "aggregate"
       ELSE IF has_graph THEN "graph"
       ELSE IF has_docs THEN "document"
       ELSE "direct"

\* RouteDecision.path
select_route(query) ==
    LET has_graph == _is_graph_domain_question(query)
        has_docs == _contains_any_hint(query, DOC_HINTS)
        is_count == _contains_any_hint(query, COUNT_HINTS)
    IN IF is_count THEN "aggregate"
       ELSE IF has_graph /\ has_docs THEN "hybrid"
       ELSE IF has_graph THEN "graph"
       ELSE IF has_docs THEN "document"
       ELSE "direct"

_planned_steps(route) ==
    IF route = "direct" THEN <<"synthesis">>
    ELSE IF route = "document" THEN <<"document_retrieval", "synthesis">>
    ELSE IF route = "graph" THEN <<"graph_retrieval", "synthesis">>
    ELSE IF route = "hybrid"
    THEN <<"document_retrieval", "graph_retrieval", "hybrid_merge", "synthesis">>
    ELSE IF route = "aggregate" THEN <<"aggregate_retrieval", "synthesis">>
    ELSE <<"synthesis">>

\* ToolDecision without its rationale and latency
ToolDecision(tool_name, status, attempt) ==
    [tool_name |-> tool_name, status |-> status, attempt |-> attempt]

-----------------------------------------------------------------------------
(* response/service.py *)

AnswerEnvelope(confidence, citations, policy) ==
    [confidence |-> confidence, citations |-> citations, policy |-> policy]

\* _confidence_for_score with strict comparisons
_confidence_for_score_strict(score) ==
    IF score > (75 * SCALE) \div 100 THEN "high"
    ELSE IF score > (4 * SCALE) \div 10 THEN "medium"
    ELSE "low"

_confidence_for_score(score) ==
    IF score >= (75 * SCALE) \div 100 THEN "high"
    ELSE IF score >= (4 * SCALE) \div 10 THEN "medium"
    ELSE "low"

\* citations are the source ids of the first five hits
build_answer(retrieval) ==
    IF retrieval.route = "direct" THEN AnswerEnvelope("low", <<>>, "needs_context")
    ELSE IF retrieval.hits = <<>> /\ retrieval.degraded
    THEN AnswerEnvelope("low", <<>>, "infra_degraded")
    ELSE IF retrieval.hits = <<>> THEN AnswerEnvelope("low", <<>>, "low_evidence")
    ELSE LET top == Take(retrieval.hits, 5)
             citations == [i \in DOMAIN top |-> top[i].source_id]
             confidence == _confidence_for_score(retrieval.hits[1].score)
         IN AnswerEnvelope(
                IF retrieval.degraded /\ confidence = "high" THEN "medium"
                ELSE confidence,
                citations,
                IF retrieval.degraded THEN "degraded_answer" ELSE "grounded")

-----------------------------------------------------------------------------
(* llm/providers.py *)

\* the critic of a query: the deterministic one, or the model critic with the
\* reply it gives: JSON asking to refine or not, text that is not JSON, or a
\* provider that raises
Critics == {"deterministic", "refine", "keep", "unparsable", "provider_error"}

DeterministicCriticModel_evaluate(route, top_score, hit_count) ==
    [exc |-> None,
     should_refine |-> /\ route \in {"graph", "document"}
                       /\ (top_score < (35 * SCALE) \div 100 \/ hit_count < 2)]

GeminiCriticModel_evaluate(reply) ==
    IF reply = "provider_error" THEN [exc |-> "ProviderError", should_refine |-> FALSE]
    ELSE IF reply = "unparsable" THEN [exc |-> None, should_refine |-> FALSE]
    ELSE [exc |-> None, should_refine |-> reply = "refine"]

evaluate(critic, route, top_score, hit_count) ==
    IF critic = "deterministic"
    THEN DeterministicCriticModel_evaluate(route, top_score, hit_count)
    ELSE GeminiCriticModel_evaluate(critic)

-----------------------------------------------------------------------------
(* orchestration/service.py: run_orchestration.  A run is the                *)
(* OrchestrationResult under construction with the two caches of the store   *)
(* and a log of what the run did: retrieve_calls, backend_calls (remote      *)
(* stores and embedding provider), raised (the backends that raised),        *)
(* critic_calls, critic_failures (kinds of failed critic replies),            *)
(* iterations of the refinement loop, initial_answer (the envelope before    *)
(* the refinement loop) and refinements (per refinement: its attempt, the    *)
(* route before and after, and whether its retrieve call was answered from   *)
(* retrieval_cache) and plan (the planned steps that the rationale of the    *)
(* planner decision reports).                                                *)

Run(route, retrieval, answer, tool_decisions, cache, embedding_cache) ==
    [exc |-> None, route |-> route, retrieval |-> retrieval, answer |-> answer,
     tool_decisions |-> tool_decisions, retrieval_cache |-> cache,
     query_embedding_cache |-> embedding_cache, retrieve_calls |-> 0,
     backend_calls |-> 0, raised |-> {}, critic_calls |-> 0, critic_failures |-> {},
     iterations |-> 0, initial_answer |-> answer, refinements |-> <<>>,
     plan |-> _planned_steps(route)]

\* the arguments every step of a run receives
Context(chunks_by_user, question, user_id, user_access_token, env, critic) ==
    [chunks |-> chunks_by_user, question |-> question, user_id |-> user_id,
     user_access_token |-> user_access_token, env |-> env, critic |-> critic]

\* retrieve(store=store, route=route, query=question, ...) within a run
Retrieving(run, ctx, route) ==
    retrieve(run.retrieval_cache, run.query_embedding_cache, ctx.chunks, route,
             ctx.question, ctx.user_id, ctx.user_access_token, ctx.env)

\* the run after a retrieve call returned or raised
Logged(run, r) ==
    [run EXCEPT !.exc = r.exc,
                !.retrieval_cache = r.retrieval_cache,
                !.query_embedding_cache = r.query_embedding_cache,
                !.retrieve_calls = @ + 1,
                !.backend_calls = @ + r.calls,
                !.raised = @ \cup r.raised]

\* _run_without_langgraph once its retrieve call has returned r
RetrievedDirectly(run, route, r) ==
    IF r.exc # None THEN Logged(run, r)
    ELSE [Logged(run, r) EXCEPT
             !.route = route, !.retrieval = r.bundle,
             !.answer = build_answer(r.bundle),
             !.tool_decisions = <<ToolDecision("router", "ok", 1),
                                  ToolDecision("retrieval", "ok", 1),
                                  ToolDecision("synthesis", "ok", 1)>>]

_run_without_langgraph(run, ctx) ==
    LET route == select_route(ctx.question)
    IN Bind(Retrieving(run, ctx, route), LAMBDA r : RetrievedDirectly(run, route, r))

\* document_branch_node and graph_branch_node: the run after the node and the
\* hits it returns; the node of a route it does not serve returns no hits
BranchNode(run, ctx, route, serves) ==
    IF ~serves \/ run.exc # None THEN [run |-> run, hits |-> <<>>]
    ELSE Bind(Retrieving(run, ctx, route), LAMBDA r :
            [run |-> Logged(run, r),
             hits |-> IF r.exc = None THEN r.bundle.hits ELSE <<>>])

document_branch_node(run, ctx, route) ==
    BranchNode(run, ctx, "document", route \in {"document", "hybrid"})

graph_branch_node(run, ctx, route) ==
    BranchNode(run, ctx, "graph", route \in {"graph", "hybrid"})

\* merge_retrieval_node
merge_retrieval_node(route, doc_hits, graph_hits) ==
    IF route = "document"
    THEN RetrievalBundle("document", Take(doc_hits, 5), FALSE, <<>>,
                         "score_normalization_v2")
    ELSE IF route = "graph"
    THEN RetrievalBundle("graph", Take(graph_hits, 5), FALSE, <<>>,
                         "score_normalization_v2")
    ELSE Bind(SortedByScore(doc_hits \o graph_hits), LAMBDA ranked :
            RetrievalBundle("hybrid", Take(Deduped(ranked, {}), 6), FALSE, <<>>,
                            "score_normalization_v2"))

\* status of a node's decision: "ok" when its timer recorded more than 0 ms
TimedStatus(ran, latency_ms) == IF ran /\ latency_ms > 0 THEN "ok" ELSE "skipped"

\* the `initial` result built from the output of the compiled graph
InitialResult(after, route, retrieval, latency_ms) ==
    IF after.exc # None THEN after
    ELSE [after EXCEPT
             !.route = route, !.retrieval = retrieval,
             !.answer = build_answer(retrieval),
             !.tool_decisions =
                 <<ToolDecision("router", "ok", 1),
                   ToolDecision("retrieval", "ok", 1),
                   ToolDecision("document_branch",
                                TimedStatus(route \notin {"direct", "aggregate"},
                                            latency_ms), 1),
                   ToolDecision("graph_branch",
                                TimedStatus(route \notin {"direct", "aggregate"},
                                            latency_ms), 1),
                   ToolDecision("merge_retrieval",
                                TimedStatus(route = "hybrid", latency_ms), 1),
                   ToolDecision("synthesis", "ok", 1)>>]

\* compiled.invoke(...): router, then single_retrieval or the two branches and
\* the merge; latency_ms is what each node's timer measures
RunLangGraph(run, ctx, latency_ms) ==
    LET route == select_route(ctx.question)
    IN IF route \in {"direct", "aggregate"}
       THEN Bind(Retrieving(run, ctx, route), LAMBDA r :
               InitialResult(Logged(run, r), route, r.bundle, latency_ms))
       ELSE Bind(document_branch_node(run, ctx, route), LAMBDA doc :
            Bind(graph_branch_node(doc.run, ctx, route), LAMBDA graph :
            Bind(merge_retrieval_node(route, doc.hits, graph.hits), LAMBDA retrieval :
               InitialResult(graph.run, route, retrieval, latency_ms))))

\* range(1, refinement_budget + 2): one attempt too many
RefinementBudget_one_more(max_refinements) == Max2(0, max_refinements) + 1

\* refinement_budget = max(0, max_refinements)
RefinementBudget(max_refinements) == Max2(0, max_refinements)

\* the run after the critic was asked: one more iteration and critic call
Judged(current, critic) ==
    [current EXCEPT
        !.iterations = @ + 1,
        !.critic_calls = @ + 1,
        !.critic_failures = IF critic \in {"unparsable", "provider_error"}
                            THEN @ \cup {critic} ELSE @]

RECURSIVE RefineLoop(_, _, _, _)
\* the for loop of _maybe_refine from `attempt` on
RefineLoop(current, ctx, attempt, refinement_budget) ==
    IF attempt > refinement_budget \/ current.exc # None THEN current
    ELSE IF current.route \notin {"document", "graph"}
    THEN [current EXCEPT
             !.iterations = @ + 1,
             !.tool_decisions = Append(@, ToolDecision("critic", "skipped", attempt))]
    ELSE LET top_score == IF current.retrieval.hits # <<>>
                          THEN current.retrieval.hits[1].score ELSE 0
             hit_count == Len(current.retrieval.hits)
             critique == evaluate(ctx.critic, current.route, top_score, hit_count)
             judged == Judged(current, ctx.critic)
             refine_route == IF current.route = "document" THEN "hybrid" ELSE "graph"
         IN IF critique.exc # None THEN [judged EXCEPT !.exc = critique.exc]
            ELSE IF ~critique.should_refine
            THEN [judged EXCEPT
                     !.tool_decisions =
                         Append(@, ToolDecision("critic", "ok", attempt))]
            ELSE Bind(Retrieving(judged, ctx, refine_route), LAMBDA r :
                    IF r.exc # None THEN Logged(judged, r)
                    ELSE Bind([Logged(judged, r) EXCEPT
                                  !.route = refine_route,
                                  !.refinements =
                                      Append(@, [attempt |-> attempt,
                                                 from |-> current.route,
                                                 to |-> refine_route,
                                                 from_cache |-> r.from_cache,
                                                 before |-> current.retrieval,
                                                 after |-> r.bundle]),
                                  !.retrieval = r.bundle,
                                  !.answer = build_answer(r.bundle),
                                  !.tool_decisions =
                                      @ \o <<ToolDecision("critic", "ok", attempt),
                                             ToolDecision("retrieval_refine", "ok",
                                                          attempt)>>],
                              LAMBDA refined :
                                 RefineLoop(refined, ctx, attempt + 1,
                                            refinement_budget)))

_maybe_refine(initial, ctx, max_refinements) ==
    Bind([initial EXCEPT !.initial_answer = initial.answer], LAMBDA current :
       RefineLoop(current, ctx, 1, RefinementBudget(max_refinements)))

\* the planner decision put after the decisions of the result
_with_planner_decision_appended(result) ==
    IF result.exc # None THEN result
    ELSE [result EXCEPT !.plan = _planned_steps(result.route),
                        !.tool_decisions = Append(@, ToolDecision("planner", "ok", 1))]

\* _with_planner_decision(refined, route=refined["route"], ...)
_with_planner_decision(result) ==
    IF result.exc # None THEN result
    ELSE [result EXCEPT !.plan = _planned_steps(result.route),
                        !.tool_decisions = <<ToolDecision("planner", "ok", 1)>> \o @]

\* a budget floored at 2 instead of 1
PlannerBudget_floor_two(planner_max_steps) == Max2(2, planner_max_steps)

\* budget = max(1, planner_max_steps)
PlannerBudget(planner_max_steps) == Max2(1, planner_max_steps)

\* use_langgraph is FALSE also when langgraph cannot be imported
run_orchestration(cache, embedding_cache, ctx, max_refinements, planner_max_steps, use_langgraph, latency_ms) ==
    LET planner_route == select_route(ctx.question)
        plan == _planned_steps(planner_route)
        budget == PlannerBudget(planner_max_steps)
    IN Bind(Run(planner_route,
                RetrievalBundle(planner_route, <<>>, FALSE, <<>>,
                                "score_normalization_v2"),
                AnswerEnvelope("low", <<>>, "planner_budget_exceeded"),
                <<ToolDecision("planner", "blocked", 1)>>, cache, embedding_cache),
            LAMBDA run :
               IF Len(plan) > budget THEN run
               ELSE Bind(IF use_langgraph THEN RunLangGraph(run, ctx, latency_ms)
                         ELSE _run_without_langgraph(run, ctx),
                         LAMBDA initial :
                            Bind(_maybe_refine(initial, ctx, max_refinements),
                                 LAMBDA refined : _with_planner_decision(refined))))

-----------------------------------------------------------------------------
(* Queries: the retrieval engine called on its own, and POST /api/v1/query   *)

MaxServedJobs == 1

\* the questions asked: QNotes and QTheNotes have the same semantic key
QNotes == <<"notes", "alpha">>
QTheNotes == <<"the", "alpha", "notes">>
QDirector == <<"director", "inception">>
QDirectorNotes == <<"director", "nolan", "notes">>
QCount == <<"count", "notes">>
QHello == <<"hello">>

Questions == {QNotes, QDirector, QDirectorNotes, QCount, QHello}

Routes == {"direct", "document", "graph", "hybrid", "aggregate"}

\* the outcomes a call to a remote store can have in this deployment
SupabaseOutcomes == IF supabase_store THEN {"hits", "empty", "raise"} ELSE {"absent"}

Neo4jOutcomes == IF neo4j_store THEN {"hits", "empty", "raise"} ELSE {"absent"}

HeuristicEnv(supabase, neo4j) == Env(supabase, neo4j, "ok", "heuristic", None, "error")

ingest_unchanged == UNCHANGED ingest_vars

\* the text/plain jobs of a user that are completed
CompletedTextJobs(user_id) ==
    {j \in DOMAIN ingestion_jobs :
        /\ ingestion_jobs[j].user_id = user_id
        /\ ingestion_jobs[j].content_type = "text/plain"
        /\ ingestion_jobs[j].stage = INGESTION_STAGE_COMPLETED}

\* one call of retrieve on the store
retrieve_call(route, query, user_id, env) ==
    /\ lifecycle = "serving" /\ wpc = "idle"
    /\ n_queries < MaxQueries
    /\ \E r \in {retrieve(retrieval_cache, query_embedding_cache,
                           private_chunks_by_user, route, query, user_id,
                           TokenOf(user_id), env)},
          cache_key \in {<<route, user_id, _semantic_query_key(query),
                           env.rerank_backend, env.rerank_model>>} :
          /\ retrieval_cache' = r.retrieval_cache
          /\ query_embedding_cache' = r.query_embedding_cache
          /\ first_bundle' = IF r.exc = None /\ cache_key \notin DOMAIN first_bundle
                             THEN Put(first_bundle, cache_key, r.bundle)
                             ELSE first_bundle
          /\ last' = [kind |-> "retrieve", route |-> route, query |-> query,
                      user_id |-> user_id, cache_key |-> cache_key,
                      repeated |-> cache_key \in DOMAIN first_bundle,
                      completed |-> CompletedTextJobs(user_id),
                      chunks |-> IF user_id \in DOMAIN private_chunks_by_user
                                 THEN private_chunks_by_user[user_id] ELSE <<>>,
                      exc |-> r.exc, bundle |-> r.bundle, from_cache |-> r.from_cache,
                      calls |-> r.calls, raised |-> r.raised]
    /\ n_queries' = n_queries + 1
    /\ UNCHANGED memory_vars
    /\ ingest_unchanged

-----------------------------------------------------------------------------
(* auth/access.py: the demo quota *)

DEFAULT_DEMO_QUOTA == 3

get_demo_remaining(usage, session_id) ==
    LET used == IF session_id \in DOMAIN usage THEN usage[session_id] ELSE 0
    IN Max2(0, DEFAULT_DEMO_QUOTA - used)

\* consume_demo_query that counts a call it refuses
consume_demo_query_counts_refused(usage, session_id) ==
    [ok |-> get_demo_remaining(usage, session_id) > 0,
     usage |-> Put(usage, session_id,
                   (IF session_id \in DOMAIN usage THEN usage[session_id] ELSE 0) + 1)]

\* the returned bool and store.demo_usage_by_session after the call
consume_demo_query(usage, session_id) ==
    IF get_demo_remaining(usage, session_id) <= 0
    THEN [ok |-> FALSE, usage |-> usage]
    ELSE [ok |-> TRUE,
          usage |-> Put(usage, session_id,
                        (IF session_id \in DOMAIN usage THEN usage[session_id] ELSE 0)
                        + 1)]

-----------------------------------------------------------------------------
(* memory/service.py: conversation turns.  A thread id is <<"client", n>>    *)
(* when the request carries it and <<"thread", n>> when the handler makes it *)
(* up (uuid4 in the code).                                                   *)

FOLLOW_UP_HINTS ==
    {<<"that", "movie">>, <<"this", "movie">>, <<"that", "doc">>, <<"this", "doc">>,
     <<"that", "file">>, <<"this", "file">>, <<"that", "relationship">>,
     <<"that", "result">>, <<"those", "findings">>}

\* the words of "\n\nFollow-up context from prior user turn: "
FOLLOW_UP_CONTEXT == <<"follow-up", "context", "from", "prior", "user", "turn:">>

\* a request without a thread_id
NoThread == <<"thread", 0>>

ConversationTurn(role, content) == [role |-> role, content |-> content]

TurnsOf(threads, thread_id) ==
    IF thread_id \in DOMAIN threads THEN threads[thread_id] ELSE <<>>

\* store.conversation_turns_by_thread after append_turn
append_turn(threads, thread_id, role, content) ==
    Put(threads, thread_id,
        Append(TurnsOf(threads, thread_id), ConversationTurn(role, content)))

\* tuple(turns[-limit:]) with Python's slice rules: -0 is 0, and a negative
\* limit is a start index counted from the front
get_recent_turns(threads, thread_id, limit) ==
    LET turns == TurnsOf(threads, thread_id)
        n == Len(turns)
        first == IF limit > 0 THEN Max2(0, n - limit) ELSE Min2(0 - limit, n)
    IN SubSeq(turns, first + 1, n)

\* resolve_follow_up_question that takes the first user turn of the thread
resolve_follow_up_question_first_turn(threads, thread_id, question) ==
    LET user_turns == SelectSeq(TurnsOf(threads, thread_id),
                                LAMBDA turn : turn.role = "user")
    IN IF ~ \E hint \in FOLLOW_UP_HINTS : _contains_hint(question, hint)
       THEN [resolved |-> question, note |-> None]
       ELSE IF user_turns = <<>> THEN [resolved |-> question, note |-> None]
       ELSE [resolved |-> question \o FOLLOW_UP_CONTEXT \o user_turns[1].content,
             note |-> "resolved follow-up reference using previous user turn"]

\* (resolved, note) of resolve_follow_up_question
resolve_follow_up_question(threads, thread_id, question) ==
    LET user_turns == SelectSeq(TurnsOf(threads, thread_id),
                                LAMBDA turn : turn.role = "user")
    IN IF ~ \E hint \in FOLLOW_UP_HINTS : _contains_hint(question, hint)
       THEN [resolved |-> question, note |-> None]
       ELSE IF user_turns = <<>> THEN [resolved |-> question, note |-> None]
       ELSE [resolved |-> question \o FOLLOW_UP_CONTEXT
                             \o user_turns[Len(user_turns)].content,
             note |-> "resolved follow-up reference using previous user turn"]

-----------------------------------------------------------------------------
(* api/app.py: POST /api/v1/query *)

\* what every call of the handler records: the request and the store before it
Request(question, user_id, demo_session_id, thread_id) ==
    [question |-> question, user_id |-> user_id, session_id |-> demo_session_id,
     access_mode |-> IF user_id = None THEN "demo" ELSE "authenticated",
     thread_id |-> thread_id,
     usage_before |-> demo_usage_by_session,
     calls_before |-> demo_calls,
     threads_before |-> conversation_turns_by_thread]

\* the decisions of the response: a memory_resolver decision goes first
trace_decisions(tool_decisions, resolution_note) ==
    IF resolution_note # None
    THEN <<ToolDecision("memory_resolver", "ok", 1)>> \o tool_decisions
    ELSE tool_decisions

TRACE_LOG_LIMIT == 500

\* QueryTrace; the trace_id is the ordinal of the query the trace is made for
create_trace(trace_id, route, confidence, access_mode, latency_ms) ==
    [trace_id |-> trace_id, route |-> route, confidence |-> confidence,
     access_mode |-> access_mode, latency_ms |-> latency_ms]

\* a log that is cut to its first TRACE_LOG_LIMIT traces
append_trace_keeps_oldest(log, trace) ==
    LET appended == Append(log, trace)
    IN IF Len(appended) > TRACE_LOG_LIMIT
       THEN SubSeq(appended, 1, TRACE_LOG_LIMIT)
       ELSE appended

\* query_trace_log.append(trace) and the cut to query_trace_log[-500:]
append_trace(log, trace) ==
    LET appended == Append(log, trace)
    IN IF Len(appended) > TRACE_LOG_LIMIT
       THEN SubSeq(appended, Len(appended) - TRACE_LOG_LIMIT + 1, Len(appended))
       ELSE appended

\* the handler once run_orchestration has returned `result`: the two turns,
\* the trace and the response
respond(request, consumed, res, result, max_refinements, planner_max_steps, use_langgraph, latency_ms) ==
    \E threads \in {IF result.exc # None THEN conversation_turns_by_thread
                    ELSE append_turn(
                             append_turn(conversation_turns_by_thread,
                                         request.thread_id, "user", request.question),
                             request.thread_id, "assistant", result.answer)} :
       /\ retrieval_cache' = result.retrieval_cache
       /\ query_embedding_cache' = result.query_embedding_cache
       /\ demo_usage_by_session' = consumed.usage
       /\ conversation_turns_by_thread' = threads
       /\ query_trace_log' =
             IF result.exc # None THEN query_trace_log
             ELSE append_trace(query_trace_log,
                               create_trace(n_queries + 1, result.route,
                                            result.answer.confidence,
                                            request.access_mode,
                                            Max2(latency_ms, 0)))
       /\ last' = [kind |-> "query", question |-> request.question,
                   user_id |-> request.user_id,
                   max_refinements |-> max_refinements,
                   planner_max_steps |-> planner_max_steps,
                   use_langgraph |-> use_langgraph,
                   completed |-> CompletedTextJobs(request.user_id),
                   exc |-> result.exc, route |-> result.route,
                   retrieval |-> result.retrieval, answer |-> result.answer,
                   tool_decisions |-> result.tool_decisions,
                   retrieve_calls |-> result.retrieve_calls,
                   backend_calls |-> result.backend_calls,
                   raised |-> result.raised,
                   critic_calls |-> result.critic_calls,
                   critic_failures |-> result.critic_failures,
                   iterations |-> result.iterations,
                   initial_answer |-> result.initial_answer,
                   refinements |-> result.refinements,
                   plan |-> result.plan,
                   request |-> request,
                   resolved_question |-> res.resolved,
                   trace_decisions |-> trace_decisions(result.tool_decisions, res.note),
                   turns |-> get_recent_turns(threads, request.thread_id, 6)]

\* the handler from the follow-up resolution on
answer_query(request, consumed, env, critic, max_refinements, planner_max_steps, use_langgraph, latency_ms) ==
    \E res \in {resolve_follow_up_question(conversation_turns_by_thread,
                                            request.thread_id, request.question)} :
    \E result \in {run_orchestration(
                       retrieval_cache, query_embedding_cache,
                       Context(private_chunks_by_user, res.resolved, request.user_id,
                               TokenOf(request.user_id), env, critic),
                       max_refinements, planner_max_steps, use_langgraph,
                       latency_ms)} :
       respond(request, consumed, res, result, max_refinements, planner_max_steps,
               use_langgraph, latency_ms)

\* POST /api/v1/query: the quota gate, the follow-up resolution,
\* run_orchestration on the resolved question, and the two turns appended
query(question, user_id, env, critic, max_refinements, planner_max_steps, use_langgraph, latency_ms, demo_session_id, thread_id) ==
    /\ lifecycle = "serving" /\ wpc = "idle"
    /\ n_queries < MaxTraceQueries
    /\ \E request \in {Request(question, user_id, demo_session_id,
                               IF thread_id = NoThread THEN <<"thread", n_queries + 1>>
                               ELSE thread_id)},
          consumed \in {IF user_id = None
                        THEN consume_demo_query(demo_usage_by_session, demo_session_id)
                        ELSE [ok |-> TRUE, usage |-> demo_usage_by_session]} :
          /\ demo_calls' = IF user_id # None THEN demo_calls
                           ELSE Put(demo_calls, demo_session_id,
                                    (IF demo_session_id \in DOMAIN demo_calls
                                     THEN demo_calls[demo_session_id] ELSE 0) + 1)
          /\ IF ~consumed.ok
             THEN \* HTTPException(status_code=429)
                  /\ last' = [kind |-> "rejected", request |-> request,
                              exc |-> "HTTPException"]
                  /\ demo_usage_by_session' = consumed.usage
                  /\ UNCHANGED <<retrieval_cache, query_embedding_cache,
                                 conversation_turns_by_thread, query_trace_log>>
             ELSE answer_query(request, consumed, env, critic, max_refinements,
                               planner_max_steps, use_langgraph, latency_ms)
    /\ n_queries' = n_queries + 1
    /\ UNCHANGED <<first_bundle, superstep>>
    /\ ingest_unchanged

-----------------------------------------------------------------------------
(* Specifications of the query side *)

PlannerSteps == {-1, 0, 1, 3, 6}

Refinements == {-1, 0, 1, 2}

QueryUsers == {None, "u1"}

\* a configured store that answers with no rows
Quiet(configured) == IF configured THEN "empty" ELSE "absent"

QuietEnv == HeuristicEnv(Quiet(supabase_store), Quiet(neo4j_store))

\* queries under every planner budget, the rest of the configuration at its default
QueryPlanner ==
    /\ n_queries < MaxOrchQueries
    /\ \E question \in Questions, planner_max_steps \in PlannerSteps,
          use_langgraph \in BOOLEAN :
           query(question, None, QuietEnv, "deterministic", 1, planner_max_steps,
                 use_langgraph, 0, "anonymous", NoThread)

\* queries that retrieve, under every outcome of the remote stores and of the
\* embedding provider
QueryBackends ==
    /\ n_queries < MaxOrchQueries
    /\ \E question \in Questions \ {QHello}, user_id \in QueryUsers,
          supabase \in SupabaseOutcomes,
          neo4j \in Neo4jOutcomes, embed \in {"ok", "RuntimeError"},
          use_langgraph \in BOOLEAN :
           query(question, user_id,
                 Env(supabase, neo4j, embed, "heuristic", None, "error"),
                 "deterministic", 1, 6, use_langgraph, 1, "anonymous", NoThread)

\* queries with the LLM reranker
QueryRerank ==
    /\ n_queries < MaxOrchQueries
    /\ \E question \in Questions, runtime_key \in {None, "key"}, llm \in LlmReplies :
           query(question, None,
                 Env(Quiet(supabase_store), Quiet(neo4j_store), "ok", "llm", runtime_key,
                     llm),
                 "deterministic", 1, 6, FALSE, 0, "anonymous", NoThread)

\* queries under every critic and every refinement budget
QueryCritic ==
    /\ n_queries < MaxOrchQueries
    /\ \E question \in Questions, critic \in Critics, max_refinements \in Refinements,
          use_langgraph \in BOOLEAN :
           query(question, None, QuietEnv, critic, max_refinements, 6, use_langgraph, 1,
                 "anonymous", NoThread)

NextOrch ==
    \/ start
    \/ QueryPlanner
    \/ QueryBackends
    \/ QueryRerank
    \/ QueryCritic

\* the app serving queries over the seeded corpora and the remote stores
SpecOrch == Init /\ [][NextOrch]_vars

-----------------------------------------------------------------------------
(* Specifications of the retrieval engine and of the app serving one user    *)

\* an upload of the notes file by u1
ServedUpload ==
    /\ next_job_id <= MaxServedJobs
    /\ upload_private_file("u1", "text/plain", TextNotes)

\* retrieve on every route under every outcome of the remote stores
RetrieveStores ==
    /\ n_queries < MaxStoreCalls
    /\ \E route \in Routes \ {"direct"}, supabase \in SupabaseOutcomes,
          neo4j \in Neo4jOutcomes :
          retrieve_call(route, QDirectorNotes, "u1", HeuristicEnv(supabase, neo4j))

\* retrieve while embed_query raises
RetrieveEmbed ==
    /\ n_queries < MaxStoreCalls
    /\ supabase_store
    /\ \E route \in {"document", "hybrid"} :
          retrieve_call(route, QNotes, "u1",
                        Env("hits", Quiet(neo4j_store), "RuntimeError", "heuristic",
                            None, "error"))

NextRetrieve ==
    \/ start
    \/ ServedUpload
    \/ WorkerStep
    \/ RetrieveStores
    \/ RetrieveEmbed

\* one process: uploads of u1 being ingested while retrieve is called under
\* every behaviour of the remote stores
SpecRetrieve == Init /\ [][NextRetrieve]_vars

\* a configured store that raises, and the same store once it answers again
Unsteady(configured) == IF configured THEN {"raise", "hits"} ELSE {"absent"}

\* retrieve with questions of equal semantic key, on the routes that read the
\* chunks of the user, while the remote vector store fails and recovers
RetrieveRepeat ==
    \E route \in {"document", "aggregate"}, question \in {QNotes, QTheNotes},
       supabase \in Unsteady(supabase_store) :
        retrieve_call(route, question, "u1",
                      HeuristicEnv(supabase, Quiet(neo4j_store)))

\* retrieve with the LLM reranker
RetrieveRerank ==
    retrieve_call("document", QNotes, "u1",
                  Env(Quiet(supabase_store), Quiet(neo4j_store), "ok", "llm", "key",
                      "rows"))

NextCache ==
    \/ start
    \/ ServedUpload
    \/ WorkerStep
    \/ RetrieveRepeat
    \/ RetrieveRerank

\* one process: uploads of u1 being ingested between repeated retrieve calls
SpecCache == Init /\ [][NextCache]_vars

\* queries of u1 under the default configuration
QueryServed ==
    /\ n_queries < MaxQueries
    /\ \E question \in {QNotes, QTheNotes, QDirector}, use_langgraph \in BOOLEAN :
        query(question, "u1", QuietEnv, "deterministic", 1, 6, use_langgraph, 1, "anonymous", NoThread)

NextServe ==
    \/ start
    \/ ServedUpload
    \/ WorkerStep
    \/ QueryServed

\* one process: u1 uploads the notes file and asks questions
SpecServe == Init /\ [][NextServe]_vars

-----------------------------------------------------------------------------
(* Two users and an unauthenticated caller on one store *)

MaxIsolationCalls == 2

Callers == Users \cup {None}

\* each user uploads one file: u1 the notes file, u2 the long file
IsolationUpload ==
    \E input \in {<<"u1", TextNotes>>, <<"u2", TextLong>>} :
        /\ \A job_id \in DOMAIN ingestion_jobs :
               ingestion_jobs[job_id].user_id # input[1]
        /\ upload_private_file(input[1], "text/plain", input[2])

\* retrieve for any caller on the routes that read documents
IsolationRetrieve ==
    /\ n_queries < MaxIsolationCalls
    /\ \E user_id \in Callers, route \in {"document", "hybrid"} :
          retrieve_call(route, QNotes, user_id, QuietEnv)

\* POST /api/v1/query by a user, with a question of the same semantic key
IsolationQuery ==
    /\ n_queries < MaxIsolationCalls
    /\ \E user_id \in Users :
          query(QTheNotes, user_id, QuietEnv, "deterministic", 1, 6, TRUE, 1,
                "anonymous", NoThread)

NextIsolation ==
    \/ start
    \/ IsolationUpload
    \/ WorkerStep
    \/ IsolationRetrieve
    \/ IsolationQuery

\* one process: both users upload files and every caller retrieves and asks
SpecIsolation == Init /\ [][NextIsolation]_vars

-----------------------------------------------------------------------------
(* Claims on retrieval and orchestration *)

\* how many decisions of a tool a result records
DecisionCount(tool_decisions, tool_name) ==
    Cardinality({i \in DOMAIN tool_decisions : tool_decisions[i].tool_name = tool_name})

\* the last call was a query that returned a result
Answered == last.kind = "query" /\ last.exc = None

\* the plan of the last query has more steps than `budget`
OverBudget(budget) == Len(_planned_steps(select_route(last.question))) > budget

\* what a blocked query returns
BlockedResult ==
    /\ last.exc = None
    /\ last.retrieve_calls = 0
    /\ last.critic_calls = 0
    /\ last.answer = AnswerEnvelope("low", <<>>, "planner_budget_exceeded")
    /\ last.tool_decisions = <<ToolDecision("planner", "blocked", 1)>>

\* C4: the bundle a query returns has degraded = TRUE exactly when a backend
\* raised while the retrieval of that query ran, and a tag in backend_failures
\* exactly when degraded is TRUE.
C4_DegradedIffBackendRaised ==
    Answered =>
        /\ last.retrieval.degraded <=> last.raised # {}
        /\ last.retrieval.backend_failures # <<>> <=> last.retrieval.degraded

\* C5: a document-routed query of a user cites a chunk of every text/plain
\* upload of that user that was completed before the query and shares a word
\* with the question, whatever was asked before the upload.
C5_CompletedUploadIsCited ==
    (Answered /\ last.user_id # None /\ select_route(last.question) = "document") =>
        \A j \in last.completed :
            (\E i \in DOMAIN private_chunks_by_user[last.user_id] :
                /\ private_chunks_by_user[last.user_id][i].chunk_id[2] = j
                /\ private_chunks_by_user[last.user_id][i].content
                       \cap Tokens(last.question) # {})
            => \E c \in DOMAIN last.answer.citations :
                   /\ last.answer.citations[c][1] = "chunk"
                   /\ last.answer.citations[c][2] = j

\* C6 as stated: for every planner_max_steps, a query whose plan has more
\* steps than planner_max_steps calls no retrieval and no critic, leaves both
\* caches as they were and returns the blocked result.
C6_BlockedOverMaxSteps ==
    [][(n_queries' # n_queries /\ last'.kind = "query"
          /\ Len(_planned_steps(select_route(last'.question))) > last'.planner_max_steps)
       => /\ last'.exc = None
          /\ last'.retrieve_calls = 0
          /\ last'.critic_calls = 0
          /\ last'.answer = AnswerEnvelope("low", <<>>, "planner_budget_exceeded")
          /\ last'.tool_decisions = <<ToolDecision("planner", "blocked", 1)>>
          /\ retrieval_cache' = retrieval_cache
          /\ query_embedding_cache' = query_embedding_cache]_vars

\* C6 amended: a query whose plan has more steps than max(1, planner_max_steps)
\* calls no retrieval and no critic, leaves both caches as they were and
\* returns policy planner_budget_exceeded, confidence low, no citations and
\* the single decision planner/blocked.
C6_BlockedOverBudget ==
    [][(n_queries' # n_queries /\ last'.kind = "query"
          /\ Len(_planned_steps(select_route(last'.question)))
                > (IF last'.planner_max_steps >= 1 THEN last'.planner_max_steps ELSE 1))
       => /\ last'.exc = None
          /\ last'.retrieve_calls = 0
          /\ last'.critic_calls = 0
          /\ last'.answer = AnswerEnvelope("low", <<>>, "planner_budget_exceeded")
          /\ last'.tool_decisions = <<ToolDecision("planner", "blocked", 1)>>
          /\ retrieval_cache' = retrieval_cache
          /\ query_embedding_cache' = query_embedding_cache]_vars

\* a hybrid question was blocked under a budget of 3 and a document question
\* under a budget floored at 1
C6_Witness ==
    /\ last.kind = "query"
    /\ last.planner_max_steps \in {0, 3}
    /\ OverBudget(Max2(1, last.planner_max_steps))
    /\ BlockedResult

\* the tags of a backend on a bundle
TagsOf(bundle, backend) ==
    {i \in DOMAIN bundle.backend_failures : bundle.backend_failures[i][1] = backend}

\* the source ids the local data gave the last retrieve call
LocalSourceIds ==
    {shared_demo_documents[i].chunk_id : i \in DOMAIN shared_demo_documents}
    \cup {shared_graph_edges[i].edge_id : i \in DOMAIN shared_graph_edges}
    \cup {last.chunks[i].chunk_id : i \in DOMAIN last.chunks}

\* C7: a retrieve call in which the remote vector store or the remote graph
\* store raised returns a bundle: it raises nothing, the bundle carries a tag
\* of that store, and its hits or counts are those of the local data.
C7_StoreFailureIsTagged ==
    (last.kind = "retrieve" /\ last.raised \cap {"supabase", "neo4j"} # {}) =>
        /\ last.exc = None
        /\ last.bundle.degraded
        /\ \A backend \in last.raised \cap {"supabase", "neo4j"} :
              TagsOf(last.bundle, backend) # {}
        /\ last.route # "aggregate" =>
              \A i \in DOMAIN last.bundle.hits :
                  \/ last.bundle.hits[i].source_id \in LocalSourceIds
                  \/ /\ last.bundle.hits[i].source_id[1] = "remote"
                     /\ "supabase" \notin last.raised
                  \/ /\ last.bundle.hits[i].source_id[1] = "title"
                     /\ "neo4j" \notin last.raised
        /\ last.route = "aggregate" =>
              /\ Len(last.bundle.hits) = 1
              /\ "supabase" \in last.raised =>
                    last.bundle.hits[1].content.documents = Len(last.chunks)
              /\ "neo4j" \in last.raised =>
                    last.bundle.hits[1].content.graph_edges = Len(shared_graph_edges)

\* on a hybrid retrieve both remote stores raised and the hits are local
C7_Witness ==
    /\ last.kind = "retrieve"
    /\ last.route = "hybrid"
    /\ last.raised = {"supabase", "neo4j"}
    /\ last.exc = None
    /\ last.bundle.hits # <<>>
    /\ Len(last.bundle.backend_failures) = 2

\* C8: a retrieve call whose route, user_id, rerank settings and semantic key
\* are those of an earlier call of the process returns the bundle of the
\* first such call, from the cache and without a call to a backend.
C8_RepeatedRetrieveIsCached ==
    (last.kind = "retrieve" /\ last.repeated) =>
        /\ last.exc = None
        /\ last.from_cache
        /\ last.calls = 0
        /\ last.bundle = first_bundle[last.cache_key]

\* "the alpha notes" is answered from the bundle of "notes alpha", computed
\* before the upload of u1 was ingested
C8_Witness ==
    /\ last.kind = "retrieve"
    /\ last.repeated
    /\ last.query = QTheNotes
    /\ last.route = "document"
    /\ last.user_id = "u1"
    /\ last.bundle.hits = <<>>
    /\ last.completed # {}

\* C9: the refinement loop of a query runs at most max(0, max_refinements)
\* times and records at most that many retrieval_refine decisions; it records
\* none for a question routed direct, hybrid or aggregate and none once the
\* route has become hybrid.
C9_RefinementsBounded ==
    Answered =>
        /\ last.iterations <= Max2(0, last.max_refinements)
        /\ DecisionCount(last.tool_decisions, "retrieval_refine")
              <= Max2(0, last.max_refinements)
        /\ select_route(last.question) \in {"direct", "hybrid", "aggregate"} =>
              DecisionCount(last.tool_decisions, "retrieval_refine") = 0
        /\ select_route(last.question) = "document" =>
              DecisionCount(last.tool_decisions, "retrieval_refine") <= 1

\* a graph question was refined twice under a budget of 2
C9_Witness ==
    /\ Answered
    /\ last.max_refinements = 2
    /\ last.iterations = 2
    /\ DecisionCount(last.tool_decisions, "retrieval_refine") = 2

\* C10: a query whose model critic failed (provider error, or a reply that is
\* not the expected JSON) returns the envelope of the initial retrieval, with
\* no retrieval_refine decision and no error.
C10_CriticFailureKeepsInitial ==
    (last.kind = "query" /\ last.critic_failures # {}) =>
        /\ last.exc = None
        /\ DecisionCount(last.tool_decisions, "retrieval_refine") = 0
        /\ last.answer = last.initial_answer

-----------------------------------------------------------------------------
(* The worker under uploads of one user: a file that is ingested, a file the *)
(* parser rejects and a file of an unsupported type                          *)

RecordInputs ==
    {<<"text/plain", TextNotes>>, <<"application/pdf", PdfCorrupt>>,
     <<"image/png", TextNotes>>}

RecordUpload == \E input \in RecordInputs : upload_private_file("u1", input[1], input[2])

NextRecords ==
    \/ RecordUpload
    \/ start
    \/ stop_begin
    \/ stop_end
    \/ WorkerStep
    \/ restart

\* uploads of u1, the worker, stop/start and restarts from the snapshot
SpecRecords == Init /\ [][NextRecords]_vars

\* the same with the worker task and the pending stop() scheduled fairly
SpecRecordsLive ==
    Init /\ [][NextRecords]_vars /\ WF_vars(WorkerStep) /\ WF_vars(stop_end)

NextStop ==
    \/ RecordUpload
    \/ start
    \/ stop_begin
    \/ stop_end
    \/ WorkerStep

\* one process that is never killed: uploads, the worker and stop/start, with
\* the worker task and the pending stop() scheduled fairly
SpecStopLive ==
    Init /\ [][NextStop]_vars /\ WF_vars(WorkerStep) /\ WF_vars(stop_end)

\* IngestionWorker.enqueue called while the app is not serving
enqueue_call(job_id) ==
    /\ lifecycle \in {"init", "stopped"} /\ wpc = "idle"
    /\ Len(worker_queue) < MaxJobs
    /\ LET put == enqueue(job_id)
       IN /\ worker_queue' = put.queue
          /\ last' = [kind |-> "enqueue", job_id |-> job_id, exc |-> put.exc,
                      lifecycle |-> lifecycle, queue_before |-> worker_queue,
                      queue_after |-> put.queue]
    /\ UNCHANGED <<ingestion_jobs, queued_uploads, private_chunks_by_user, snapshot,
                   queue_open, task, shutdown, wpc, wjob, wchunks, lifecycle,
                   supabase_store, neo4j_store, next_job_id, restarts, stops,
                   step_failed, recovered>>
    /\ UNCHANGED <<retrieval_cache, query_embedding_cache, first_bundle, n_queries,
                   memory_vars>>

EnqueueCall == \E job_id \in 1..MaxJobs : enqueue_call(job_id)

NextEnqueue ==
    \/ RecordUpload
    \/ start
    \/ stop_begin
    \/ stop_end
    \/ WorkerStep
    \/ restart
    \/ EnqueueCall

\* the worker with enqueue called before start and after stop
SpecEnqueue == Init /\ [][NextEnqueue]_vars

-----------------------------------------------------------------------------
(* The demo quota and the conversation memory within one process *)

QThatMovie == <<"what", "about", "that", "movie">>

DemoSessions == {"s1", "s2"}

\* greetings of two demo sessions, and of u1 signed in under either session
QuotaQuery ==
    /\ n_queries < MaxApiQueries
    /\ \E demo_session_id \in DemoSessions, user_id \in QueryUsers :
        query(QHello, user_id, QuietEnv, "deterministic", 1, 6, FALSE, 0,
              demo_session_id, NoThread)

NextQuota ==
    \/ start
    \/ QuotaQuery

SpecQuota == Init /\ [][NextQuota]_vars

ClientThread == <<"client", 1>>

\* u1 asks a question and a follow-up, in a thread of its own or in a new one
MemoryQuery ==
    /\ n_queries < MaxThreadQueries
    /\ \E thread_id \in {ClientThread, NoThread}, question \in {QDirector, QThatMovie} :
          query(question, "u1", QuietEnv, "deterministic", 1, 6, FALSE, 0, "s1",
                thread_id)

RecentLimits == {0, 2, 6}

\* get_recent_turns called with a limit
recent_call(thread_id, limit) ==
    /\ lifecycle = "serving" /\ wpc = "idle"
    /\ last' = [kind |-> "recent", thread_id |-> thread_id, limit |-> limit,
                turns |-> get_recent_turns(conversation_turns_by_thread, thread_id,
                                           limit)]
    /\ UNCHANGED <<retrieval_cache, query_embedding_cache, first_bundle, n_queries,
                   memory_vars>>
    /\ ingest_unchanged

RecentCall ==
    \E thread_id \in {ClientThread, <<"thread", 1>>}, limit \in RecentLimits :
        recent_call(thread_id, limit)

NextMemory ==
    \/ start
    \/ MemoryQuery
    \/ RecentCall

SpecMemory == Init /\ [][NextMemory]_vars

-----------------------------------------------------------------------------
(* build_answer on bundles of every route, with no hit, one hit or six hits  *)
(* sorted by score, the top score on either side of both thresholds          *)

AnswerScores ==
    {0, (4 * SCALE) \div 10 - 1, (4 * SCALE) \div 10, (75 * SCALE) \div 100 - 1,
     (75 * SCALE) \div 100, SCALE}

AnswerHits(score, n) ==
    [i \in 1..n |-> RetrievalHit(<<"chunk", 1, i>>, IF i = 1 THEN score ELSE 0,
                                 {"alpha"}, "private_document")]

AnswerBundles ==
    {RetrievalBundle(route, AnswerHits(score, n), degraded,
                     IF degraded THEN <<"supabase:RuntimeError">> ELSE <<>>,
                     "score_normalization_v2") :
        route \in Routes, score \in AnswerScores, n \in {0, 1, 6},
        degraded \in BOOLEAN}

build_answer_call(retrieval) ==
    /\ last' = [kind |-> "build_answer", retrieval |-> retrieval,
                answer |-> build_answer(retrieval)]
    /\ UNCHANGED <<retrieval_cache, query_embedding_cache, first_bundle, n_queries,
                   memory_vars>>
    /\ ingest_unchanged

NextAnswer == \E retrieval \in AnswerBundles : build_answer_call(retrieval)

SpecAnswer == Init /\ [][NextAnswer]_vars

-----------------------------------------------------------------------------
(* The store under uploads of two users: a file of two chunks and a blank    *)
(* file, with job ids enqueued again, stop/start and restarts                *)

MaxAgain == 1

StoreInputs == {<<"text/plain", TextLong>>, <<"text/plain", TextBlank>>}

StoreUpload ==
    \E user_id \in Users, input \in StoreInputs :
        upload_private_file(user_id, input[1], input[2])

\* IngestionWorker.enqueue called again with the id of a known job
enqueue_again(job_id) ==
    /\ lifecycle = "serving" /\ wpc = "idle"
    /\ job_id \in DOMAIN ingestion_jobs
    /\ Len(worker_queue) < MaxAgain
    /\ LET put == enqueue(job_id)
       IN /\ put.exc = None
          /\ worker_queue' = put.queue
    /\ UNCHANGED <<ingestion_jobs, queued_uploads, private_chunks_by_user, snapshot,
                   queue_open, task, shutdown, wpc, wjob, wchunks, lifecycle,
                   supabase_store, neo4j_store, next_job_id, restarts, stops,
                   step_failed, recovered>>
    /\ query_unchanged

EnqueueAgain == \E job_id \in 1..MaxJobs : enqueue_again(job_id)

NextStore ==
    \/ StoreUpload
    \/ start
    \/ restarts = 0 /\ stop_begin
    \/ stop_end
    \/ WorkerStep
    \/ stops = 0 /\ restart
    \/ EnqueueAgain

SpecStore == Init /\ [][NextStore]_vars

-----------------------------------------------------------------------------
(* One query step by step: the steps of the retrieval of a query whose route *)
(* has a document or a graph branch.  With LangGraph, document_branch and    *)
(* graph_branch are the two nodes the router fans out to; the compiled graph *)
(* runs the nodes of one fan-out concurrently and runs merge_retrieval, the  *)
(* node both have an edge to, once both have returned.  Each node calls      *)
(* retrieve: the cache lookup, on a miss the hits (with the write to         *)
(* query_embedding_cache of a document retrieval), then the write to         *)
(* retrieval_cache.  Without LangGraph, retrieve(route="hybrid") calls       *)
(* _document_hits and then _graph_hits.  The handler is a coroutine that     *)
(* does not await while it runs run_orchestration: no other handler and no   *)
(* worker step runs while a query is in flight.                              *)

BranchNames == {"document_branch", "graph_branch"}

BranchRoute(node) == IF node = "document_branch" THEN "document" ELSE "graph"

\* what a branch has found: nothing yet
NoResult == [bundle |-> [hits |-> <<>>], calls |-> 0, raised |-> {}, called |-> FALSE]

InFlight == superstep.phase = "branches"

\* the key of the retrieve call of a node
BranchKey(node) ==
    CacheKey(BranchRoute(node), superstep.ctx.question, superstep.ctx.user_id,
             superstep.ctx.env)

\* node has returned with `result`
Returned(node, result) ==
    [superstep EXCEPT !.pc[node] = "done", !.found[node] = result,
                      !.finished = Append(@, node)]

branch_unchanged ==
    /\ UNCHANGED <<first_bundle, last, n_queries, demo_usage_by_session,
                   conversation_turns_by_thread, demo_calls, query_trace_log>>
    /\ ingest_unchanged

\* the handler up to compiled.invoke or to the retrieve call of
\* _run_without_langgraph, for a signed-in user
query_begin(question, user_id, env, critic, max_refinements, planner_max_steps, use_langgraph, latency_ms, thread_id) ==
    /\ lifecycle = "serving" /\ wpc = "idle"
    /\ ~InFlight
    /\ n_queries < MaxBranchQueries
    /\ user_id # None
    /\ \E request \in {Request(question, user_id, "s1", thread_id)},
          res \in {resolve_follow_up_question(conversation_turns_by_thread, thread_id,
                                              question)} :
       \E route \in {select_route(res.resolved)} :
          /\ Len(_planned_steps(route)) <= PlannerBudget(planner_max_steps)
          /\ IF use_langgraph THEN route \in {"document", "graph", "hybrid"}
             ELSE /\ route = "hybrid"
                  /\ CacheKey(route, res.resolved, user_id, env)
                         \notin DOMAIN retrieval_cache
          /\ superstep' =
                [phase |-> "branches",
                 engine |-> IF use_langgraph THEN "langgraph" ELSE "retrieve",
                 request |-> request, res |-> res, route |-> route,
                 ctx |-> Context(private_chunks_by_user, res.resolved, user_id,
                                 TokenOf(user_id), env, critic),
                 max_refinements |-> max_refinements,
                 planner_max_steps |-> planner_max_steps,
                 latency_ms |-> latency_ms,
                 retrieval_cache |-> retrieval_cache,
                 query_embedding_cache |-> query_embedding_cache,
                 pc |-> [node \in BranchNames |-> "start"],
                 found |-> [node \in BranchNames |-> NoResult],
                 finished |-> <<>>,
                 merged |-> [hits |-> <<>>]]
    /\ n_queries' = n_queries + 1
    /\ UNCHANGED <<retrieval_cache, query_embedding_cache, first_bundle, last,
                   demo_usage_by_session, conversation_turns_by_thread, demo_calls,
                   query_trace_log>>
    /\ ingest_unchanged

\* document_branch_node or graph_branch_node up to the cache lookup of its
\* retrieve call; the node of a route it does not serve returns no hits
branch_lookup(node) ==
    /\ InFlight /\ superstep.engine = "langgraph"
    /\ superstep.pc[node] = "start"
    /\ superstep' =
          IF superstep.route \notin {BranchRoute(node), "hybrid"}
          THEN Returned(node, NoResult)
          ELSE IF BranchKey(node) \in DOMAIN retrieval_cache
          THEN Returned(node, [bundle |-> retrieval_cache[BranchKey(node)],
                               calls |-> 0, raised |-> {}, called |-> TRUE])
          ELSE [superstep EXCEPT !.pc[node] = "miss"]
    /\ UNCHANGED <<retrieval_cache, query_embedding_cache>>
    /\ branch_unchanged

\* retrieve lines 405-527 in a node
branch_compute(node) ==
    /\ InFlight /\ superstep.engine = "langgraph"
    /\ superstep.pc[node] = "miss"
    /\ \E r \in {RetrieveRoute(query_embedding_cache, superstep.ctx.chunks,
                                BranchRoute(node), superstep.ctx.question,
                                superstep.ctx.user_id,
                                superstep.ctx.user_access_token, superstep.ctx.env)} :
          /\ r.exc = None
          /\ query_embedding_cache' = r.query_embedding_cache
          /\ superstep' = [superstep EXCEPT
                              !.pc[node] = "store",
                              !.found[node] = [bundle |-> r.bundle, calls |-> r.calls,
                                               raised |-> r.raised, called |-> TRUE]]
    /\ UNCHANGED retrieval_cache
    /\ branch_unchanged

\* retrieve lines 529-530 in a node, and the return of the node
branch_store(node) ==
    /\ InFlight /\ superstep.engine = "langgraph"
    /\ superstep.pc[node] = "store"
    /\ retrieval_cache' = Put(retrieval_cache, BranchKey(node),
                              superstep.found[node].bundle)
    /\ superstep' = Returned(node, superstep.found[node])
    /\ UNCHANGED query_embedding_cache
    /\ branch_unchanged

\* the run after the retrieve calls of the nodes that called retrieve
BranchesLogged(run) ==
    LET log(r, node) ==
            IF ~superstep.found[node].called THEN r
            ELSE Logged(r, [exc |-> None, retrieval_cache |-> r.retrieval_cache,
                            query_embedding_cache |-> r.query_embedding_cache,
                            calls |-> superstep.found[node].calls,
                            raised |-> superstep.found[node].raised])
    IN log(log(run, "document_branch"), "graph_branch")

\* the run of run_orchestration on the store as it is now
CurrentRun ==
    Run(superstep.route,
        RetrievalBundle(superstep.route, <<>>, FALSE, <<>>, "score_normalization_v2"),
        AnswerEnvelope("low", <<>>, "planner_budget_exceeded"),
        <<ToolDecision("planner", "blocked", 1)>>, retrieval_cache,
        query_embedding_cache)

\* the rest of run_orchestration and of the handler once the retrieval of the
\* first pass is `initial`
query_end(initial, merged) ==
    /\ \E result \in {_with_planner_decision(
                           _maybe_refine(initial, superstep.ctx,
                                         superstep.max_refinements))} :
          respond(superstep.request,
                  [ok |-> TRUE, usage |-> demo_usage_by_session], superstep.res,
                  result, superstep.max_refinements, superstep.planner_max_steps,
                  superstep.engine = "langgraph", superstep.latency_ms)
    /\ superstep' = [superstep EXCEPT !.phase = "merged", !.merged = merged]
    /\ UNCHANGED <<first_bundle, n_queries, demo_calls>>
    /\ ingest_unchanged

\* merge_retrieval_node and synthesis_node, run once both branches returned,
\* then the rest of the handler
invoke_returns ==
    /\ InFlight /\ superstep.engine = "langgraph"
    /\ \A node \in BranchNames : superstep.pc[node] = "done"
    /\ \E retrieval \in {merge_retrieval_node(
                              superstep.route,
                              superstep.found["document_branch"].bundle.hits,
                              superstep.found["graph_branch"].bundle.hits)} :
          query_end(InitialResult(BranchesLogged(CurrentRun), superstep.route,
                                  retrieval, superstep.latency_ms),
                    retrieval)

\* retrieve(route="hybrid") lines 456-465: _document_hits(limit=10)
hybrid_document_hits ==
    /\ InFlight /\ superstep.engine = "retrieve"
    /\ superstep.pc["document_branch"] = "start"
    /\ \E d \in {_document_hits(superstep.ctx.chunks, query_embedding_cache,
                                 superstep.ctx.question, superstep.ctx.user_id,
                                 superstep.ctx.user_access_token,
                                 superstep.ctx.env.supabase, superstep.ctx.env.embed,
                                 10)} :
          /\ query_embedding_cache' = d.query_embedding_cache
          /\ superstep' = Returned("document_branch",
                                   [bundle |-> [hits |-> d.hits,
                                                backend_failures |-> d.backend_failures],
                                    calls |-> d.calls, raised |-> d.raised,
                                    called |-> TRUE])
    /\ UNCHANGED retrieval_cache
    /\ branch_unchanged

\* retrieve(route="hybrid") lines 466-471: _graph_hits(limit=10), called when
\* _document_hits has returned
hybrid_graph_hits ==
    /\ InFlight /\ superstep.engine = "retrieve"
    /\ superstep.pc["document_branch"] = "done"
    /\ superstep.pc["graph_branch"] = "start"
    /\ \E g \in {_graph_hits(superstep.ctx.question, superstep.ctx.env.neo4j, 10)} :
          superstep' = Returned("graph_branch",
                                [bundle |-> [hits |-> g.hits,
                                             backend_failures |-> g.backend_failures],
                                 calls |-> g.calls, raised |-> g.raised,
                                 called |-> TRUE])
    /\ UNCHANGED <<retrieval_cache, query_embedding_cache>>
    /\ branch_unchanged

\* retrieve(route="hybrid") lines 472-489 and 529-530, then the rest of the
\* handler
retrieve_returns ==
    /\ InFlight /\ superstep.engine = "retrieve"
    /\ \A node \in BranchNames : superstep.pc[node] = "done"
    /\ LET d == superstep.found["document_branch"]
           g == superstep.found["graph_branch"]
           env == superstep.ctx.env
       IN \E reranked \in {_rerank_hits(superstep.ctx.question,
                                        d.bundle.hits \o g.bundle.hits, 6,
                                        env.rerank_backend, env.runtime_key,
                                        env.llm)} :
          \E result \in {RetrievalBundle(
                            "hybrid", reranked.hits,
                            d.bundle.backend_failures \o g.bundle.backend_failures
                               # <<>>,
                            d.bundle.backend_failures \o g.bundle.backend_failures,
                            reranked.strategy)} :
             query_end(RetrievedDirectly(
                           CurrentRun, "hybrid",
                           [exc |-> None, bundle |-> result,
                            retrieval_cache |->
                                Put(retrieval_cache,
                                    CacheKey("hybrid", superstep.ctx.question,
                                             superstep.ctx.user_id, env), result),
                            query_embedding_cache |-> query_embedding_cache,
                            from_cache |-> FALSE, calls |-> d.calls + g.calls,
                            raised |-> d.raised \cup g.raised]),
                       result)

\* a step of the branch `node`
BranchStep(node) ==
    \/ branch_lookup(node)
    \/ branch_compute(node)
    \/ branch_store(node)
    \/ node = "document_branch" /\ hybrid_document_hits
    \/ node = "graph_branch" /\ hybrid_graph_hits

\* u1 asks for notes, for a director, or for both
QueryBegin ==
    \E question \in {QNotes, QDirector, QDirectorNotes}, use_langgraph \in BOOLEAN :
        query_begin(question, "u1", QuietEnv, "deterministic", 1, 6, use_langgraph, 1,
                    ClientThread)

NextBranches ==
    \/ ~InFlight /\ start
    \/ ~InFlight /\ ServedUpload
    \/ ~InFlight /\ WorkerStep
    \/ QueryBegin
    \/ \E node \in BranchNames : BranchStep(node)
    \/ invoke_returns
    \/ retrieve_returns

SpecBranches == Init /\ [][NextBranches]_vars

PlanBudgets == {1, 2, 3, 4}

\* queries under every planner budget from 1 to 4 and a critic that asks to
\* refine, that does not, or that decides by the scores
QueryPlanCritic ==
    /\ n_queries < MaxOrchQueries
    /\ \E question \in Questions, critic \in {"deterministic", "refine", "keep"},
          planner_max_steps \in PlanBudgets, max_refinements \in {0, 1, 2},
          use_langgraph \in BOOLEAN :
           query(question, None, QuietEnv, critic, max_refinements, planner_max_steps,
                 use_langgraph, 1, "anonymous", NoThread)

NextPlan ==
    \/ start
    \/ QueryPlanCritic

SpecPlan == Init /\ [][NextPlan]_vars

\* u1 greets again and again in one thread, until the trace log has been cut
TraceQuery ==
    query(QHello, "u1", QuietEnv, "deterministic", 1, 6, FALSE, 0, "s1", ClientThread)

NextTrace ==
    \/ start
    \/ TraceQuery

SpecTrace == Init /\ [][NextTrace]_vars

-----------------------------------------------------------------------------
(* select_route on every question of up to three words of a vocabulary that  *)
(* holds count, graph and document hints, the two halves of a count phrase   *)
(* and of a graph phrase, and a word that is no hint                         *)

RouteWords == {"count", "how", "many", "director", "who", "stars", "notes", "hello"}

RouteQuestions ==
    {<<a>> : a \in RouteWords}
    \cup {<<a, b>> : a \in RouteWords, b \in RouteWords}
    \cup {<<a, b, c>> : a \in RouteWords, b \in RouteWords, c \in RouteWords}

select_route_call(question) ==
    /\ last' = [kind |-> "route", question |-> question,
                route |-> select_route(question)]
    /\ UNCHANGED <<retrieval_cache, query_embedding_cache, first_bundle, n_queries,
                   memory_vars>>
    /\ ingest_unchanged

NextRoute == \E question \in RouteQuestions : select_route_call(question)

SpecRoute == Init /\ [][NextRoute]_vars

-----------------------------------------------------------------------------
(* Claims on the job records and the worker's lifecycle *)

\* C11: in every reachable store, each job has status success exactly when
\* its stage is completed (and then chunk_count >= 0), and status failed
\* exactly when its stage is failed (and then an error message is present).
C11_StatusMatchesStage ==
    \A j \in DOMAIN ingestion_jobs :
        LET job == ingestion_jobs[j]
        IN /\ (job.status = INGESTION_STATUS_SUCCESS)
                 <=> (job.stage = INGESTION_STAGE_COMPLETED)
           /\ (job.status = INGESTION_STATUS_SUCCESS) => job.chunk_count >= 0
           /\ (job.status = INGESTION_STATUS_FAILED)
                 <=> (job.stage = INGESTION_STAGE_FAILED)
           /\ (job.status = INGESTION_STATUS_FAILED) => job.error_message # None

\* after a restart the store holds a job that succeeded with chunks and a
\* job that failed
C11_Witness ==
    /\ restarts > 0
    /\ \E j \in DOMAIN ingestion_jobs :
          /\ ingestion_jobs[j].status = INGESTION_STATUS_SUCCESS
          /\ ingestion_jobs[j].chunk_count > 0
    /\ \E j \in DOMAIN ingestion_jobs :
          ingestion_jobs[j].status = INGESTION_STATUS_FAILED

\* C12: in every reachable store, a job whose stage is completed or failed
\* has no entry in queued_uploads.
C12_TerminalJobHasNoUpload ==
    \A j \in DOMAIN ingestion_jobs :
        ingestion_jobs[j].stage \in TerminalStages => j \notin DOMAIN queued_uploads

\* the jobs start() has to put on the queue
Recoverable ==
    {j \in DOMAIN ingestion_jobs :
        /\ ingestion_jobs[j].status \in {"queued", "processing"}
        /\ j \in DOMAIN queued_uploads}

\* C13: a start() that creates the worker task puts each job of status queued
\* or processing that has a queued upload on the queue exactly once, and no
\* other job; each job so enqueued is later taken up by the worker.
C13_RecoveredJobsAreProcessed ==
    /\ [][(task # "running" /\ task' = "running") =>
             /\ {worker_queue'[i] : i \in DOMAIN worker_queue'} = Recoverable
             /\ Len(worker_queue') = Cardinality(Recoverable)]_vars
    /\ \A j \in 1..MaxJobs : (j \in recovered) ~> (j \notin recovered)

\* a job is settled when it is completed or failed, or a step of it failed
Settled(j) ==
    \/ ingestion_jobs[j].stage \in TerminalStages
    \/ j \in DOMAIN step_failed

\* C14: once stop() has been called on a running worker, stop() returns with
\* the worker task finished, and every job enqueued before the sentinel is
\* then completed or failed: none is left between parsing and upserting by
\* the shutdown.
C14_StopDrainsAndReturns ==
    (lifecycle = "stopping" /\ task = "running") ~>
        (/\ lifecycle = "stopped"
         /\ task = None
         /\ \A j \in DOMAIN ingestion_jobs : Settled(j))

MidStages ==
    {INGESTION_STAGE_PARSING, INGESTION_STAGE_CHUNKING, INGESTION_STAGE_EMBEDDING,
     INGESTION_STAGE_UPSERTING}

\* C15: the job the worker takes up is always the head of its queue, and at
\* no time are two jobs in a stage between parsing and upserting.
C15_FifoOneAtATime ==
    [][/\ (wjob' # wjob /\ wjob' # 0) => wjob' = Head(worker_queue)
       /\ Cardinality({j \in DOMAIN ingestion_jobs' :
                          ingestion_jobs'[j].stage \in MidStages}) <= 1]_vars

\* C16: enqueue on a worker that was never started, or that was stopped and
\* not started again, raises and leaves the queue as it was.
C16_EnqueueNeedsStartedWorker ==
    last.kind = "enqueue" =>
        /\ last.exc = "RuntimeError"
        /\ last.queue_after = last.queue_before

-----------------------------------------------------------------------------
(* Claims on the demo quota and the conversation memory *)

UsedBy(usage, session_id) ==
    IF session_id \in DOMAIN usage THEN usage[session_id] ELSE 0

\* C17: a demo query of a session is accepted exactly when fewer than 3 demo
\* queries of that session came before it; a refused one changes nothing in
\* the store; no query changes the count of another session, an authenticated
\* query changes no count, and the remaining quota stays within 0..3.
C17_DemoQuota ==
    [][(n_queries' = n_queries + 1) =>
          LET request == last'.request
              session_id == request.session_id
          IN /\ request.access_mode = "demo" =>
                  /\ (last'.kind # "rejected")
                        <=> (UsedBy(request.calls_before, session_id) < 3)
                  /\ last'.kind = "rejected" =>
                        UNCHANGED <<demo_usage_by_session,
                                    conversation_turns_by_thread, retrieval_cache,
                                    query_embedding_cache, ingestion_jobs,
                                    queued_uploads, private_chunks_by_user>>
                  /\ \A other \in DemoSessions \ {session_id} :
                        UsedBy(demo_usage_by_session', other)
                           = UsedBy(demo_usage_by_session, other)
             /\ request.access_mode = "authenticated" =>
                  /\ last'.kind # "rejected"
                  /\ demo_usage_by_session' = demo_usage_by_session
             /\ \A s \in DemoSessions :
                  /\ DEFAULT_DEMO_QUOTA - UsedBy(demo_usage_by_session', s) >= 0
                  /\ get_demo_remaining(demo_usage_by_session', s) \in 0..3]_vars

\* the fourth demo query of s1 is refused after s2 has been served
C17_Witness ==
    /\ last.kind = "rejected"
    /\ last.request.session_id = "s1"
    /\ UsedBy(demo_usage_by_session, "s1") = 3
    /\ UsedBy(demo_usage_by_session, "s2") >= 1

PriorUserTurns(request) ==
    SelectSeq(TurnsOf(request.threads_before, request.thread_id),
              LAMBDA turn : turn.role = "user")

HasFollowUpPhrase(question) ==
    \E i \in 1..(Len(question) - 1) : <<question[i], question[i + 1]>> \in FOLLOW_UP_HINTS

\* C18: the question of a query is rewritten exactly when it holds a follow-up
\* phrase and its thread already holds a user turn: the resolved question is
\* then the question, the context marker and the content of the latest user
\* turn of that thread, and the decisions of the response begin with a
\* memory_resolver decision; otherwise the question is passed on as it is and
\* no decision is a memory_resolver one.
C18_FollowUpResolution ==
    (last.kind = "query" /\ last.exc = None) =>
        LET prior == PriorUserTurns(last.request)
        IN IF HasFollowUpPhrase(last.question) /\ prior # <<>>
           THEN /\ last.resolved_question
                      = last.question \o FOLLOW_UP_CONTEXT \o prior[Len(prior)].content
                /\ last.trace_decisions[1].tool_name = "memory_resolver"
           ELSE /\ last.resolved_question = last.question
                /\ \A i \in DOMAIN last.trace_decisions :
                      last.trace_decisions[i].tool_name # "memory_resolver"

\* a follow-up in a thread whose first and latest user turns differ
C18_Witness ==
    /\ last.kind = "query" /\ last.exc = None
    /\ last.resolved_question # last.question
    /\ Len(PriorUserTurns(last.request)) >= 2
    /\ PriorUserTurns(last.request)[1].content
          # PriorUserTurns(last.request)[Len(PriorUserTurns(last.request))].content

\* C19: get_recent_turns returns the last min(limit, n) of the n turns of the
\* thread in append order; an answered query appends its user turn and then
\* its assistant turn to its thread and leaves every other thread as it was,
\* and the turns it reports are the last min(6, n).
C19_RecentTurns ==
    [][/\ last'.kind = "recent" =>
             LET turns == TurnsOf(conversation_turns_by_thread', last'.thread_id)
                 n == Len(turns)
             IN last'.turns = SubSeq(turns, n - Min2(last'.limit, n) + 1, n)
       /\ (n_queries' = n_queries + 1 /\ last'.kind = "query" /\ last'.exc = None) =>
             LET thread_id == last'.request.thread_id
                 turns == TurnsOf(conversation_turns_by_thread', thread_id)
                 n == Len(turns)
             IN /\ turns = TurnsOf(conversation_turns_by_thread, thread_id)
                              \o <<ConversationTurn("user", last'.question),
                                   ConversationTurn("assistant", last'.answer)>>
                /\ \A other \in DOMAIN conversation_turns_by_thread \ {thread_id} :
                      /\ other \in DOMAIN conversation_turns_by_thread'
                      /\ conversation_turns_by_thread'[other]
                            = conversation_turns_by_thread[other]
                /\ last'.turns = SubSeq(turns, n - Min2(6, n) + 1, n)]_vars

\* the row of the policy table a bundle falls in
PolicyRow(retrieval) ==
    IF retrieval.route = "direct" THEN "needs_context"
    ELSE IF retrieval.hits = <<>> /\ retrieval.degraded THEN "infra_degraded"
    ELSE IF retrieval.hits = <<>> THEN "low_evidence"
    ELSE IF retrieval.degraded THEN "degraded_answer"
    ELSE "grounded"

\* C20: build_answer gives the policy of the first matching row of: direct
\* route, no hits and degraded, no hits, hits and degraded, hits; the first
\* three come with no citations and confidence low, degraded_answer never
\* with confidence high, and grounded with confidence high from a top score
\* of 0.75, medium from 0.40, low below.
C20_AnswerPolicy ==
    last.kind = "build_answer" =>
        LET answer == last.answer
        IN /\ answer.policy = PolicyRow(last.retrieval)
           /\ answer.policy \in {"needs_context", "infra_degraded", "low_evidence"} =>
                 /\ answer.citations = <<>>
                 /\ answer.confidence = "low"
           /\ answer.policy = "degraded_answer" => answer.confidence # "high"
           /\ answer.policy = "grounded" =>
                 answer.confidence =
                    IF 100 * last.retrieval.hits[1].score >= 75 * SCALE THEN "high"
                    ELSE IF 100 * last.retrieval.hits[1].score >= 40 * SCALE
                    THEN "medium"
                    ELSE "low"

\* a degraded bundle whose top score is 1.0 is answered with confidence medium
C20_Witness ==
    /\ last.kind = "build_answer"
    /\ last.answer.policy = "degraded_answer"
    /\ last.retrieval.hits[1].score = SCALE
    /\ last.answer.confidence = "medium"
    /\ Len(last.answer.citations) = 5

-----------------------------------------------------------------------------
(* Claims on routing, the trace log and the refinement loop *)

\* a hint of one word matches a word of the question, a hint of two words
\* matches two words in a row
Matches(question, hints) ==
    \/ \E i \in DOMAIN question : <<question[i]>> \in hints
    \/ \E i \in 1..(Len(question) - 1) : <<question[i], question[i + 1]>> \in hints

C22_TraceLogKeepsNewest ==
    LET n == Len(query_trace_log)
    IN /\ n <= 500
       /\ n = Min2(500, n_queries)
       /\ \A i \in 1..n : query_trace_log[i].trace_id = n_queries - n + i
       /\ (last.kind = "query" /\ n > 0) =>
             /\ query_trace_log[n].route = last.route
             /\ query_trace_log[n].access_mode = last.request.access_mode

\* the 501st query has finished and the trace of the first one is gone
C22_Witness ==
    /\ n_queries = 501
    /\ Len(query_trace_log) = 500
    /\ query_trace_log[1].trace_id = 2

\* the decisions of the last query with tool_name `name`
DecisionsNamed(name) ==
    SelectSeq(last.tool_decisions, LAMBDA d : d.tool_name = name)

\* C23: a refinement goes from document to hybrid and from graph to graph, a
\* graph refinement runs the graph retrieval again instead of returning the
\* bundle of the first pass, and every refinement is recorded as a
\* retrieval_refine decision with its attempt number.
C23_RefinementRetrievesAgain ==
    (last.kind = "query" /\ last.exc = None) =>
        /\ \A i \in DOMAIN last.refinements :
              LET r == last.refinements[i]
              IN /\ r.from \in {"document", "graph"}
                 /\ r.to = (IF r.from = "document" THEN "hybrid" ELSE "graph")
                 /\ r.to = "graph" => ~r.from_cache
                 /\ DecisionsNamed("retrieval_refine")[i].attempt = r.attempt
        /\ Len(DecisionsNamed("retrieval_refine")) = Len(last.refinements)

\* C24: when run_orchestration executes retrieval, the plan of the route it
\* finally reports, the one its planner decision describes, has at most
\* planner_max_steps steps, also after a refinement changed the route.
\* Stated for planner_max_steps >= 1, where the budget is planner_max_steps.
C24_ReportedPlanWithinBudget ==
    (/\ last.kind = "query" /\ last.exc = None
     /\ last.planner_max_steps >= 1
     /\ last.tool_decisions[1] = ToolDecision("planner", "ok", 1)) =>
        /\ last.plan = _planned_steps(last.route)
        /\ Len(last.plan) <= last.planner_max_steps

\* the bundle of the first pass when the retrieval steps of the query in
\* flight run one after the other on the store the query found
OneAfterTheOther ==
    LET run == Run(superstep.route,
                   RetrievalBundle(superstep.route, <<>>, FALSE, <<>>,
                                   "score_normalization_v2"),
                   AnswerEnvelope("low", <<>>, "planner_budget_exceeded"),
                   <<ToolDecision("planner", "blocked", 1)>>,
                   superstep.retrieval_cache, superstep.query_embedding_cache)
    IN IF superstep.engine = "langgraph"
       THEN RunLangGraph(run, superstep.ctx, superstep.latency_ms).retrieval
       ELSE _run_without_langgraph(run, superstep.ctx).retrieval

\* C25: for a hybrid-routed query the document branch and the graph branch
\* run as two concurrent steps (neither waits for the other: a branch that
\* has not returned can always take its next step), the merge runs only after
\* both have returned, and the merged bundle is the same for every
\* interleaving and completion order of the branches.
C25_BranchesConcurrentMergeOnce ==
    superstep.phase # "idle" /\ superstep.route = "hybrid" =>
        /\ InFlight =>
              \A node \in BranchNames :
                 superstep.pc[node] # "done" => ENABLED BranchStep(node)
        /\ superstep.phase = "merged" =>
              /\ \A node \in BranchNames : superstep.pc[node] = "done"
              /\ superstep.merged = OneAfterTheOther

\* the branches of the query in flight that are inside the writing part of
\* their retrieve call: past the cache miss, with the write to
\* query_embedding_cache or to retrieval_cache still to come
Writing ==
    IF ~InFlight THEN {}
    ELSE {node \in BranchNames : superstep.pc[node] \in {"miss", "store"}}

\* C26: no two mutations of the store are in progress at the same time: the
\* worker is not inside a job while a handler runs a query, and the two
\* retrieval branches of a query are never both inside the writing part of
\* their retrieve call.
C26_StoreWritesSerialised ==
    /\ InFlight => wpc = "idle"
    /\ Cardinality(Writing) <= 1

RetrievalDecisions == {"retrieval", "document_branch", "graph_branch", "merge_retrieval"}

\* C27: the decisions of a query that passed the budget gate are the planner
\* decision, the router decision, the retrieval and branch decisions, the
\* synthesis decision, and then per refinement attempt a critic decision
\* followed by at most one retrieval_refine decision of the same attempt;
\* attempts count from 1 and a critic decision that is not followed by its
\* retrieval_refine decision is the last decision.
C27_DecisionOrder ==
    (/\ last.kind = "query" /\ last.exc = None
     /\ last.tool_decisions[1].status # "blocked") =>
        LET ds == last.tool_decisions
            n == Len(ds)
            k == CHOOSE i \in 1..n : ds[i].tool_name = "synthesis"
        IN /\ ds[1].tool_name = "planner" /\ ds[2].tool_name = "router"
           /\ \E i \in 1..n : ds[i].tool_name = "synthesis"
           /\ k >= 4
           /\ \A i \in 3..(k - 1) : ds[i].tool_name \in RetrievalDecisions
           /\ \A i \in 1..n : ds[i].attempt >= 1
           /\ \A i \in (k + 1)..n :
                 LET j == i - k
                 IN IF j % 2 = 1
                    THEN /\ ds[i].tool_name = "critic"
                         /\ ds[i].attempt = (j + 1) \div 2
                    ELSE /\ ds[i].tool_name = "retrieval_refine"
                         /\ ds[i].attempt = ds[i - 1].attempt
                         /\ ds[i - 1].status = "ok"

\* a graph query refined twice: critic, retrieval_refine, critic, retrieval_refine
C27_Witness ==
    /\ last.kind = "query" /\ last.exc = None
    /\ Len(DecisionsNamed("critic")) = 2
    /\ Len(DecisionsNamed("retrieval_refine")) = 2
    /\ last.tool_decisions[Len(last.tool_decisions)].attempt = 2

-----------------------------------------------------------------------------
(* Claims on the snapshot, the chunk lists and the isolation of users *)

\* the chunk list of a user in a store
ChunkList(chunks_by_user, user_id) ==
    IF user_id \in DOMAIN chunks_by_user THEN chunks_by_user[user_id] ELSE <<>>

\* C28: every change upload and job processing make to a job, to a chunk list
\* or to queued_uploads is in the snapshot when the step is over: the
\* snapshot holds the rows of the store, and hydrating it yields the same
\* jobs, the same chunk list for every user and the same queued uploads.
C28_SnapshotFollowsStore ==
    LET hydrated == _build_store(snapshot)
    IN /\ hydrated.ingestion_jobs = ingestion_jobs
       /\ hydrated.queued_uploads = queued_uploads
       /\ \A user_id \in Users :
             ChunkList(hydrated.private_chunks_by_user, user_id)
                = ChunkList(private_chunks_by_user, user_id)
       /\ Len(snapshot.ingestion_jobs) = Cardinality(DOMAIN ingestion_jobs)
       /\ Len(snapshot.queued_uploads) = Cardinality(DOMAIN queued_uploads)

\* a job is done, its chunks are in the snapshot and its upload is not, while
\* the next job is being processed
C28_Witness ==
    /\ wpc = "embedding"
    /\ \E j \in DOMAIN ingestion_jobs :
          /\ ingestion_jobs[j].status = INGESTION_STATUS_SUCCESS
          /\ ingestion_jobs[j].chunk_count > 0
          /\ ChunkList(_build_store(snapshot).private_chunks_by_user,
                       ingestion_jobs[j].user_id) # <<>>
          /\ j \notin DOMAIN _build_store(snapshot).queued_uploads
    /\ _build_store(snapshot).ingestion_jobs[wjob].stage = INGESTION_STAGE_EMBEDDING

\* the chunks of one job in a chunk list, in list order
ChunksOfJob(chunks, job_id) == SelectSeq(chunks, LAMBDA c : c.chunk_id[2] = job_id)

\* C29: for every job with status success the list of its owner holds the
\* chunks of the job exactly once: chunk_count of them, numbered 1..n in
\* list order, owned by the owner, with offsets that never decrease; the
\* list of no other user holds a chunk of the job.
C29_SucceededChunksOnce ==
    \A job_id \in DOMAIN ingestion_jobs :
        ingestion_jobs[job_id].status = INGESTION_STATUS_SUCCESS =>
            LET job == ingestion_jobs[job_id]
                own == ChunksOfJob(ChunkList(private_chunks_by_user, job.user_id), job_id)
            IN /\ Len(own) = job.chunk_count
               /\ \A i \in 1..Len(own) :
                      /\ own[i].chunk_id = <<"chunk", job_id, i>>
                      /\ own[i].user_id = job.user_id
               /\ \A i \in 1..(Len(own) - 1) :
                      own[i].offset_start <= own[i + 1].offset_start
               /\ \A other \in DOMAIN private_chunks_by_user \ {job.user_id} :
                      ChunksOfJob(private_chunks_by_user[other], job_id) = <<>>

\* a job of several chunks succeeded before its process restarted, its id was
\* put in the queue again, and the other user holds chunks of their own
C29_Witness ==
    /\ restarts > 0
    /\ worker_queue # <<>>
    /\ worker_queue[1] \in DOMAIN ingestion_jobs
    /\ ingestion_jobs[worker_queue[1]].status = INGESTION_STATUS_SUCCESS
    /\ ingestion_jobs[worker_queue[1]].chunk_count > 1
    /\ \E other \in DOMAIN private_chunks_by_user \ {ingestion_jobs[worker_queue[1]].user_id} :
           private_chunks_by_user[other] # <<>>

\* the ids of the private chunks of the users other than user_id
ChunkIdsOfOthers(user_id) ==
    UNION {{private_chunks_by_user[other][i].chunk_id :
               i \in 1..Len(private_chunks_by_user[other])} :
           other \in DOMAIN private_chunks_by_user \ {user_id}}

NoHitOfOthers(hits, user_id) ==
    \A i \in DOMAIN hits : hits[i].source_id \notin ChunkIdsOfOthers(user_id)

\* C30: a bundle retrieve returns to a caller, and every bundle kept in the
\* retrieval cache under the user_id of a caller, holds no hit built from a
\* private chunk of a different user; for the unauthenticated caller it holds
\* no hit built from a private chunk at all.
C30_NoHitOfAnotherUser ==
    /\ (last.kind = "retrieve" /\ last.exc = None) =>
           NoHitOfOthers(last.bundle.hits, last.user_id)
    /\ \A cache_key \in DOMAIN retrieval_cache :
           NoHitOfOthers(retrieval_cache[cache_key].hits, cache_key[2])

\* retrieve returned to a caller while the cache held, for the same route and
\* question, a bundle of another user with a hit from that user's chunks
C30_Witness ==
    /\ last.kind = "retrieve" /\ last.exc = None
    /\ \E owner \in Users \ {last.user_id} :
          \E cache_key \in {<<last.cache_key[1], owner, last.cache_key[3],
                                last.cache_key[4], last.cache_key[5]>>} :
             /\ cache_key \in DOMAIN retrieval_cache
             /\ \E i \in DOMAIN retrieval_cache[cache_key].hits :
                    retrieval_cache[cache_key].hits[i].source_id \in
                        ChunkIdsOfOthers(last.user_id)

====
